---- MODULE Spec2Model ----
(***************************************************************************)
(* A model of the AnyLetters word-candidate engine (src/main.py,           *)
(* src/filter.py): the guess scorer, the affix expansion engine, the       *)
(* language filter pipeline, the parsers of the .aff and .dic files and    *)
(* the two persisted caches with the operations that read, write and       *)
(* clear them, the collection of the dictionary words, and a game session  *)
(* (play_gui, the guesses, the restart button, the set of used secrets).   *)
(*                                                                         *)
(* Words are sequences of characters; a character is a one-character       *)
(* string.  Python's str operations (lower, isalpha, comparison by code    *)
(* point, startswith/endswith, the letters regular expression) are given   *)
(* by tables over the characters the model uses.                           *)
(***************************************************************************)
EXTENDS Integers, Sequences, FiniteSets, TLC

VARIABLES
    \* score_guess: its two arguments, its return value, and whether it ran
    guess, target, markers, scorePc,
    \* expand_with_affixes: its arguments, its return value, whether it ran
    entries, rules, word_length, blocked_suffix_additions, expanded, expandPc,
    \* filter_candidates: its arguments, its return value, its position
    words, lang, enable_filters, filtered, refiltered, filterPc,
    \* the filters directory (JSON per archetype) and the words the optional
    \* profanity detector flags
    config, profane,
    \* the program: dictionary folder content, the two cache stores, whether
    \* the file system accepts writes, and the last operation with its outcome
    dictionary, validator_cache, solution_cache, cache_dir, solution_dir,
    writable, last,
    \* parse_aff_rules and parse_dic_entries: the file each one reads, its
    \* return value, and which of them ran
    aff_file, dic_file, aff_rules, dic_entries, parsePc,
    \* _collect_dictionary_word_data: its arguments with the DictionaryWordData
    \* it returned, and whether it ran
    collected, collectPc,
    \* play_gui: the module-level set of used secrets, the closure variables
    \* of the window (secret, pools, game_over, the restart button, the rows
    \* of guesses), the arguments of the call, and where the process stands
    USED_SOLUTIONS, secret, all_solutions, solutions_by_len, allowed_words,
    game_over, restart_button, guess_history, session, gamePc

scoreVars == <<guess, target, markers, scorePc>>
affixVars == <<entries, rules, word_length, blocked_suffix_additions, expanded, expandPc>>
filterVars == <<words, lang, enable_filters, filtered, refiltered, filterPc>>
envVars == <<config, profane>>
programVars == <<dictionary, validator_cache, solution_cache, cache_dir, solution_dir,
                 writable, last>>
parseVars == <<aff_file, dic_file, aff_rules, dic_entries, parsePc>>
collectVars == <<collected, collectPc>>
gameVars == <<USED_SOLUTIONS, secret, all_solutions, solutions_by_len, allowed_words,
              game_over, restart_button, guess_history, session, gamePc>>
vars == <<scoreVars, affixVars, filterVars, envVars, programVars, parseVars, collectVars,
          gameVars>>

(***************************************************************************)
(* Characters                                                              *)
(***************************************************************************)
LowerAscii == {"a", "b", "c", "d", "e", "f", "g", "l", "n", "o", "r", "s", "t", "u"}
UpperAscii == {"A", "D", "R", "S", "T"}
Umlauts == {"ä", "ö", "ü", "ß"}
Digits == {"1"}
Punctuation == {"-", "_"}
Whitespace == {" ", "\n"}
\* the combining diaeresis U+0308, written with the spacing sign
Combining == {"¨"}

\* ord(c): Python compares and sorts strings by code point.
Ord(c) ==
    CASE c = "\n" -> 10
      [] c = " " -> 32
      [] c = "-" -> 45
      [] c = "1" -> 49
      [] c = "A" -> 65
      [] c = "D" -> 68
      [] c = "R" -> 82
      [] c = "S" -> 83
      [] c = "T" -> 84
      [] c = "_" -> 95
      [] c = "a" -> 97
      [] c = "b" -> 98
      [] c = "c" -> 99
      [] c = "d" -> 100
      [] c = "e" -> 101
      [] c = "f" -> 102
      [] c = "g" -> 103
      [] c = "l" -> 108
      [] c = "n" -> 110
      [] c = "o" -> 111
      [] c = "r" -> 114
      [] c = "s" -> 115
      [] c = "t" -> 116
      [] c = "u" -> 117
      [] c = "ß" -> 223
      [] c = "ä" -> 228
      [] c = "ö" -> 246
      [] c = "ü" -> 252
      [] c = "¨" -> 776

\* str.lower() on one character
LowerChar(c) ==
    CASE c = "A" -> "a"
      [] c = "D" -> "d"
      [] c = "T" -> "t"
      [] c = "R" -> "r"
      [] c = "S" -> "s"
      [] OTHER -> c

\* str.lower()
Lower(w) == [i \in 1..Len(w) |-> LowerChar(w[i])]

\* unicodedata.normalize("NFC", w): a vowel and a combining diaeresis compose
RECURSIVE NFC(_)
NFC(w) ==
    IF Len(w) < 2 THEN w
    ELSE IF w[2] = "¨" /\ w[1] \in {"a", "o", "u"}
         THEN <<CASE w[1] = "a" -> "ä" [] w[1] = "o" -> "ö" [] w[1] = "u" -> "ü">>
              \o NFC(SubSeq(w, 3, Len(w)))
         ELSE <<w[1]>> \o NFC(Tail(w))

\* _normalize_word
_normalize_word(w) == Lower(NFC(w))

\* str.isalpha(): non-empty and every character alphabetic
IsAlpha(w) == Len(w) > 0 /\ \A i \in 1..Len(w) : w[i] \in LowerAscii \cup UpperAscii \cup Umlauts

\* the characters of the class [a-zäöüß]
AllowedLetters == LowerAscii \cup Umlauts

\* letters_re = re.compile(r"^[a-zäöüß]+$"); letters_re.match(w).  In Python
\* "$" also matches just before a newline that ends the string.
LettersMatch(w) ==
    LET core == IF Len(w) > 0 /\ w[Len(w)] = "\n" THEN SubSeq(w, 1, Len(w) - 1) ELSE w
    IN Len(core) > 0 /\ \A i \in 1..Len(core) : core[i] \in AllowedLetters

\* str.startswith / str.endswith
StartsWith(w, p) == Len(p) <= Len(w) /\ SubSeq(w, 1, Len(p)) = p
EndsWith(w, s) == Len(s) <= Len(w) /\ SubSeq(w, Len(w) - Len(s) + 1, Len(w)) = s

\* w1 < w2 in Python's string order (code points, a proper prefix first)
RECURSIVE StrLess(_, _)
StrLess(w1, w2) ==
    IF w2 = <<>> THEN FALSE
    ELSE IF w1 = <<>> THEN TRUE
    ELSE IF Ord(Head(w1)) # Ord(Head(w2)) THEN Ord(Head(w1)) < Ord(Head(w2))
    ELSE StrLess(Tail(w1), Tail(w2))

\* sorted(S) for a set S of words
RECURSIVE Sorted(_)
Sorted(S) ==
    IF S = {} THEN <<>>
    ELSE LET m == CHOOSE x \in S : \A y \in S \ {x} : StrLess(x, y)
         IN <<m>> \o Sorted(S \ {m})

Range(f) == {f[i] : i \in DOMAIN f}

(***************************************************************************)
(* Guess scorer                                                            *)
(***************************************************************************)
MaxScoreLen == 4
ScoreAlphabet == {"a", "b", "c"}

\* remaining.get(c, 0)
Get(remaining, c) == IF c \in DOMAIN remaining THEN remaining[c] ELSE 0

\* remaining[c] = n
Put(remaining, c, n) == [k \in DOMAIN remaining \cup {c} |-> IF k = c THEN n ELSE remaining[k]]

\* first loop: mark the greens, count the target letters left over
RECURSIVE FirstPass(_, _, _, _, _)
FirstPass(g, t, i, result, remaining) ==
    IF i > Len(t) THEN <<result, remaining>>
    ELSE IF g[i] = t[i]
         THEN FirstPass(g, t, i + 1, [result EXCEPT ![i] = "G"], remaining)
         ELSE FirstPass(g, t, i + 1, result, Put(remaining, t[i], Get(remaining, t[i]) + 1))

\* mutant: the count is not taken
DecrementForgotten(remaining, c, count) == remaining

\* the count left for letter c after position i of the second loop took one
Decrement(remaining, c, count) == Put(remaining, c, count - 1)

\* mutant: the second loop also visits the green positions
SkipGreenNever(result, i) == FALSE

\* second loop: a green position is left alone
SkipGreen(result, i) == result[i] = "G"

\* second loop: allocate yellows from the counts left
RECURSIVE SecondPass(_, _, _, _)
SecondPass(g, i, result, remaining) ==
    IF i > Len(result) THEN result
    ELSE IF SkipGreen(result, i) THEN SecondPass(g, i + 1, result, remaining)
    ELSE LET count == Get(remaining, g[i])
         IN IF count > 0
            THEN SecondPass(g, i + 1, [result EXCEPT ![i] = "Y"],
                            Decrement(remaining, g[i], count))
            ELSE SecondPass(g, i + 1, result, remaining)

score_guess(g, t) ==
    LET length == Len(t)
        first == FirstPass(g, t, 1, [i \in 1..length |-> "B"], <<>>)
    IN SecondPass(g, 1, first[1], first[2])

(***************************************************************************)
(* Affix expansion engine                                                  *)
(***************************************************************************)
MaxEntries == 2
MaxRules == 1

\* A rule is <<strip, add, cond>>.  The condition is a regular-expression
\* fragment; the fragments the model uses are ".", "[^r]", "u" and the
\* malformed "[" (re.error).  CondChars(cond) is the set of characters the
\* fragment accepts at the anchored position of the stem.
CondIsValid(cond) == cond # "["
CondChars(cond) ==
    CASE cond = "." -> LowerAscii \cup UpperAscii \cup Umlauts \cup Digits
                       \cup Punctuation \cup Whitespace
      [] cond = "[^r]" -> (LowerAscii \cup UpperAscii \cup Umlauts \cup Digits
                           \cup Punctuation \cup Whitespace) \ {"r"}
      [] cond = "u" -> {"u"}
      [] OTHER -> {}

\* mutant: a condition that does not compile rejects the rule
SuffixCondFailsClosed(cond, stem) ==
    IF cond = "" THEN FALSE
    ELSE IF ~CondIsValid(cond) THEN TRUE
    ELSE ~(Len(stem) > 0 /\ stem[Len(stem)] \in CondChars(cond))

\* the try block around re.search(cond + "$", stem): TRUE when the rule is
\* rejected by its condition; a re.error leaves the rule accepted
SuffixCondRejects(cond, stem) ==
    IF cond = "" THEN FALSE
    ELSE IF ~CondIsValid(cond) THEN FALSE
    ELSE ~(Len(stem) > 0 /\ stem[Len(stem)] \in CondChars(cond))

\* the try block around re.match("^" + cond, stem)
PrefixCondRejects(cond, stem) ==
    IF cond = "" THEN FALSE
    ELSE IF ~CondIsValid(cond) THEN FALSE
    ELSE ~(Len(stem) > 0 /\ stem[1] \in CondChars(cond))

\* rules.sfx.get(flag, []) / rules.pfx.get(flag, [])
RulesFor(table, flag) == IF flag \in DOMAIN table THEN table[flag] ELSE <<>>

\* mutant: no suffix rule is ever skipped
IsBlockedNever(add, blocked) == FALSE

\* the test that skips a suffix rule whose addition is blocked; an empty or
\* absent (None) set is falsy and both are written {}
IsBlocked(add, blocked) == blocked # {} /\ add # <<>> /\ Lower(add) \in blocked

\* mutant: the alphabet test is forgotten
KeepCandidateAnyChars(candidate, n) == Len(candidate) = n

\* the final test on a candidate
KeepCandidate(candidate, n) == Len(candidate) = n /\ LettersMatch(candidate)

\* one iteration of the suffix loop: the set of yielded words (none or one)
SuffixCandidates(base, rule, n, blocked) ==
    LET strip == rule[1]
        add == rule[2]
        cond == rule[3]
    IN IF IsBlocked(add, blocked) THEN {}
       ELSE IF strip # <<>> /\ ~EndsWith(base, strip) THEN {}
       ELSE LET stem == IF strip # <<>> THEN SubSeq(base, 1, Len(base) - Len(strip))
                        ELSE base
                candidate == stem \o add
            IN IF SuffixCondRejects(cond, stem) THEN {}
               ELSE IF KeepCandidate(candidate, n) THEN {candidate} ELSE {}

\* one iteration of the prefix loop
PrefixCandidates(base, rule, n) ==
    LET strip == rule[1]
        add == rule[2]
        cond == rule[3]
    IN IF strip # <<>> /\ ~StartsWith(base, strip) THEN {}
       ELSE LET stem == IF strip # <<>> THEN SubSeq(base, Len(strip) + 1, Len(base))
                        ELSE base
                candidate == add \o stem
            IN IF PrefixCondRejects(cond, stem) THEN {}
               ELSE IF KeepCandidate(candidate, n) THEN {candidate} ELSE {}

\* mutant: prefix rules are also applied to the suffixed forms of the entry
\* (cross products)
_generate_cross_products(base, flags, rls, n, blocked) ==
    UNION { LET sfx == RulesFor(rls.sfx, flags[f])
                pfx == RulesFor(rls.pfx, flags[f])
                suffixed == UNION {SuffixCandidates(base, sfx[k], m, blocked) :
                                      k \in DOMAIN sfx, m \in 0..(n + Len(base))}
            IN UNION ({SuffixCandidates(base, sfx[k], n, blocked) : k \in DOMAIN sfx}
                      \cup {PrefixCandidates(b, pfx[k], n) :
                                k \in DOMAIN pfx, b \in {base} \cup suffixed})
            : f \in DOMAIN flags }

\* the words the generator yields for one entry
_generate_affixed_candidates(base, flags, rls, n, blocked) ==
    UNION { LET sfx == RulesFor(rls.sfx, flags[f])
                pfx == RulesFor(rls.pfx, flags[f])
            IN UNION ({SuffixCandidates(base, sfx[k], n, blocked) : k \in DOMAIN sfx}
                      \cup {PrefixCandidates(base, pfx[k], n) : k \in DOMAIN pfx})
            : f \in DOMAIN flags }

\* the test that adds an entry's base directly
AddsBase(base, n) == Len(base) = n /\ LettersMatch(base)

expand_with_affixes(ents, rls, n, blocked) ==
    UNION { (IF AddsBase(ents[e][1], n) THEN {ents[e][1]} ELSE {})
            \cup _generate_affixed_candidates(ents[e][1], ents[e][2], rls, n, blocked)
            : e \in DOMAIN ents }

(***************************************************************************)
(* Language filter pipeline                                                *)
(***************************************************************************)
MaxWords == 3

Global == <<"g", "l", "o", "b", "a", "l">>
En == <<"e", "n">>
De == <<"d", "e">>
\* _FILTER_CLASSES
FILTER_CLASSES == {En, De}

\* FilterConfig(): no prefixes, suffixes or blacklist
EmptyFilterConfig == [prefixes |-> {}, suffixes |-> {}, blacklist |-> {}]

\* str.strip(): leading and trailing white space removed
RECURSIVE Strip(_)
Strip(w) ==
    IF w = <<>> THEN w
    ELSE IF Head(w) \in Whitespace THEN Strip(Tail(w))
    ELSE IF w[Len(w)] \in Whitespace THEN Strip(SubSeq(w, 1, Len(w) - 1))
    ELSE w

\* load_filter_config: files is the content of the filters directory, one
\* JSON document per archetype that has one; blacklist_lines are the lines
\* of the documents' blacklist_files
load_filter_config(files, archetype) ==
    IF archetype \notin DOMAIN files THEN EmptyFilterConfig
    ELSE LET data == files[archetype]
         IN [prefixes |-> {Lower(x) : x \in data.prefixes \ {<<>>}},
             suffixes |-> {Lower(x) : x \in data.suffixes \ {<<>>}},
             blacklist |-> {Lower(x) : x \in data.blacklist \ {<<>>}}
                           \cup ({Lower(Strip(x)) : x \in data.blacklist_lines} \ {<<>>})]

\* _contains_profanity: the optional detector flags the words of `flagged`,
\* whatever their case; without the detector nothing is flagged
_contains_profanity(flagged, text) == Lower(text) \in flagged

_matches_prefix(cfg, word_lower) == \E prefix \in cfg.prefixes : StartsWith(word_lower, prefix)
\* mutant: the suffixes are looked for at the start of the word
_matches_suffix_at_start(cfg, word_lower) ==
    \E suffix \in cfg.suffixes : StartsWith(word_lower, suffix)

_matches_suffix(cfg, word_lower) == \E suffix \in cfg.suffixes : EndsWith(word_lower, suffix)

\* mutant: the loop of apply misses the first word
ApplyInputTail(ws) == IF ws = <<>> THEN ws ELSE Tail(ws)

\* the words the loop of apply visits
ApplyInput(ws) == ws

\* the loop of LanguageFilter.apply from word i on
RECURSIVE ApplyLoop(_, _, _, _, _, _)
ApplyLoop(cfg, flagged, ws, i, processed, seen) ==
    IF i > Len(ws) THEN processed
    ELSE LET word == ws[i]
             lower == Lower(word)
         IN IF \/ ~IsAlpha(lower)
               \/ _contains_profanity(flagged, word)
               \/ lower \in cfg.blacklist
               \/ _matches_prefix(cfg, lower) \/ _matches_suffix(cfg, lower)
               \/ lower \in seen
            THEN ApplyLoop(cfg, flagged, ws, i + 1, processed, seen)
            ELSE ApplyLoop(cfg, flagged, ws, i + 1, Append(processed, word),
                           seen \cup {lower})

\* LanguageFilter.apply for the filter with configuration cfg
apply(cfg, flagged, ws, catalog) ==
    Sorted(Range(ApplyLoop(cfg, flagged, ApplyInput(ws), 1, <<>>, {})))

\* str.split("-", 1)[0]
RECURSIVE BeforeHyphen(_)
BeforeHyphen(w) ==
    IF w = <<>> \/ Head(w) = "-" THEN <<>> ELSE <<Head(w)>> \o BeforeHyphen(Tail(w))

\* mutant: the region subtag is kept
_language_archetype_with_region(lng) == Lower(Strip(lng))

\* _language_archetype; None is written <<>>
_language_archetype(lng) ==
    LET normalized == Lower(Strip(lng))
    IN IF normalized = <<>> THEN <<>>
       ELSE IF normalized \in FILTER_CLASSES THEN normalized
       ELSE IF "-" \in Range(normalized) THEN BeforeHyphen(normalized)
       ELSE normalized

\* filter_candidates with filters enabled
FilterPipeline(files, flagged, ws, lng, catalog) ==
    LET sorted_words == Sorted(Range(ws))
        after_global == IF sorted_words # <<>>
                        THEN apply(load_filter_config(files, Global), flagged,
                                   sorted_words, catalog)
                        ELSE sorted_words
        archetype == _language_archetype(lng)
    IN IF archetype = <<>> THEN after_global
       ELSE apply(load_filter_config(files, archetype), flagged, after_global, catalog)

\* mutant: the enable_filters switch is ignored
filter_candidates_always(files, flagged, ws, lng, catalog, enable) ==
    FilterPipeline(files, flagged, ws, lng, catalog)

filter_candidates(files, flagged, ws, lng, catalog, enable) ==
    IF ~enable THEN Sorted(Range(ws))
    ELSE FilterPipeline(files, flagged, ws, lng, catalog)

(***************************************************************************)
(* Dictionary data, the two caches, and the operations that use them       *)
(***************************************************************************)

\* _prune_blocked_suffix_bases: the set left in `ws`
\* mutant: no word is pruned
_prune_nothing(ws, blocked_suffixes, catalog) == ws

_prune_blocked_suffix_bases(ws, blocked_suffixes, catalog) ==
    IF blocked_suffixes = {} \/ ws = {} THEN ws
    ELSE LET normalized_catalog == {Lower(entry) : entry \in catalog}
             removals ==
                 {word \in ws :
                     \E suffix \in blocked_suffixes :
                         /\ suffix # <<>>
                         /\ EndsWith(Lower(word), suffix)
                         /\ LET stem == SubSeq(Lower(word), 1, Len(word) - Len(suffix))
                            IN stem # <<>> /\ stem \in normalized_catalog}
         IN ws \ removals

\* the blocked suffixes _collect_dictionary_word_data gathers: those of the
\* language's archetype and the global ones
BlockedSuffixes(files, lng) ==
    LET normalized_lang == Lower(Strip(lng))
        archetype == BeforeHyphen(normalized_lang)
        own == IF normalized_lang # <<>> /\ archetype # <<>>
               THEN {Lower(x) : x \in load_filter_config(files, archetype).suffixes \ {<<>>}}
               ELSE {}
    IN own \cup {Lower(x) : x \in load_filter_config(files, Global).suffixes \ {<<>>}}

\* _collect_dictionary_word_data on the merged rules and entries of the
\* folder; raised names the exception, "none" when it returns
_collect_dictionary_word_data(files, dict, n, lng) ==
    IF dict.entries = <<>>
    THEN [raised |-> "ValueError", base_words |-> {}, affixed_words |-> {}, catalog |-> {}]
    ELSE LET all_entries == dict.entries
             base_words == {all_entries[e][1] : e \in {k \in DOMAIN all_entries :
                                                          Len(all_entries[k][1]) = n}}
             blocked_suffixes == BlockedSuffixes(files, lng)
             affixed_words == expand_with_affixes(all_entries, dict.rules, n,
                                                  blocked_suffixes)
             source_catalog == {all_entries[e][1] : e \in DOMAIN all_entries}
         IN [raised |-> "none",
             base_words |-> _prune_blocked_suffix_bases(base_words, blocked_suffixes,
                                                        source_catalog),
             affixed_words |-> _prune_blocked_suffix_bases(affixed_words, blocked_suffixes,
                                                           source_catalog),
             catalog |-> source_catalog]

\* DictionaryWordData.combined
combined(data) == data.base_words \cup data.affixed_words

\* a cache file is the sequence of its lines (without the line ends); a
\* store maps the keys <<lang, word_length>> of its files to their content
HasFile(store, key) == key \in DOMAIN store
WriteFile(store, key, lines) ==
    [k \in DOMAIN store \cup {key} |-> IF k = key THEN lines ELSE store[k]]

\* the non-empty stripped lines of a file, in file order
RECURSIVE StrippedLines(_)
StrippedLines(lines) ==
    IF lines = <<>> THEN <<>>
    ELSE IF Strip(Head(lines)) = <<>> THEN StrippedLines(Tail(lines))
    ELSE <<Strip(Head(lines))>> \o StrippedLines(Tail(lines))

\* load_cache
load_cache(store, lng, n) ==
    IF ~HasFile(store, <<lng, n>>) THEN {} ELSE Range(StrippedLines(store[<<lng, n>>]))

\* load_filtered_solution_cache
load_filtered_solution_cache(store, lng, n) ==
    IF ~HasFile(store, <<lng, n>>) THEN <<>> ELSE StrippedLines(store[<<lng, n>>])

\* os.makedirs(..., exist_ok=True) with OSError swallowed: the directory
\* exists afterwards if it did, or if the file system takes writes
MakeDirs(exists, can_write) == exists \/ can_write

\* open(path, "w") succeeds
CanOpenForWrite(dir_exists, can_write) == dir_exists /\ can_write

SolutionsOfLengthNone(solutions, n) == {}

\* the words of the solutions list build_validator adds to the allowed set
SolutionsOfLength(solutions, n) ==
    {_normalize_word(solutions[i]) : i \in {k \in DOMAIN solutions : Len(solutions[k]) = n}}

(***************************************************************************)
(* Values of the variables of a component that is not running              *)
(***************************************************************************)
NoRules == [sfx |-> <<>>, pfx |-> <<>>]
NoLast == [op |-> "none", lang |-> <<>>, n |-> 0, solutions |-> <<>>, enable |-> FALSE,
           hit |-> FALSE, outcome |-> "none", ret |-> <<>>, allowed |-> {},
           backend |-> "none", words |-> {}, scope |-> <<>>, removed |-> {}]

ScoreIdle == guess = <<>> /\ target = <<>> /\ markers = <<>> /\ scorePc = "idle"
AffixIdle ==
    /\ entries = <<>> /\ rules = NoRules /\ word_length = 0
    /\ blocked_suffix_additions = {} /\ expanded = {} /\ expandPc = "idle"
FilterIdle ==
    /\ words = <<>> /\ lang = <<>> /\ enable_filters = FALSE
    /\ filtered = <<>> /\ refiltered = <<>> /\ filterPc = "idle"
EnvIdle == config = <<>> /\ profane = {}
ProgramIdle ==
    /\ dictionary = [entries |-> <<>>, rules |-> NoRules]
    /\ validator_cache = <<>> /\ solution_cache = <<>>
    /\ cache_dir = FALSE /\ solution_dir = FALSE /\ writable = TRUE /\ last = NoLast
\* a path at which there is no file
NoFile == [exists |-> FALSE, lines |-> <<>>]
ParseIdle ==
    /\ aff_file = NoFile /\ dic_file = NoFile /\ aff_rules = NoRules /\ dic_entries = <<>>
    /\ parsePc = "idle"

\* the record kept of a call of _collect_dictionary_word_data
NoData == [lang |-> <<>>, n |-> 0, raised |-> "none", base_words |-> {},
           affixed_words |-> {}, catalog |-> {}]
CollectIdle == collected = NoData /\ collectPc = "idle"
\* the arguments of play_gui before it is called
NoSession == [lang |-> <<>>, n |-> 0, difficulty |-> "none", use_solution_filters |-> FALSE]
\* the window's variables before play_gui has set them; no secret and no
\* button (None) are written <<>> and FALSE
NoGame ==
    /\ USED_SOLUTIONS = {} /\ secret = <<>> /\ all_solutions = <<>>
    /\ solutions_by_len = <<>> /\ allowed_words = {} /\ game_over = FALSE
    /\ restart_button = FALSE /\ guess_history = <<>> /\ session = NoSession
GameIdle == NoGame /\ gamePc = "idle"
(***************************************************************************)
(* The guess scorer applied to equal-length words                          *)
(***************************************************************************)
ExampleGuess == <<"a", "a", "b", "b", "b">>
ExampleTarget == <<"a", "b", "a", "b", "a">>

ScoreInputs ==
    {<<g, t>> : g \in {ExampleGuess}, t \in {ExampleTarget}}
    \cup UNION {[1..n -> ScoreAlphabet] \X [1..n -> ScoreAlphabet] : n \in 0..MaxScoreLen}

InitScore ==
    /\ \E p \in ScoreInputs : guess = p[1] /\ target = p[2]
    /\ markers = <<>> /\ scorePc = "ready"
    /\ AffixIdle /\ FilterIdle /\ EnvIdle /\ ProgramIdle /\ ParseIdle /\ CollectIdle /\ GameIdle

ScoreGuess ==
    /\ scorePc = "ready"
    /\ markers' = score_guess(guess, target)
    /\ scorePc' = "done"
    /\ UNCHANGED <<guess, target, affixVars, filterVars, envVars, programVars,
                   parseVars, collectVars, gameVars>>

NextScore == ScoreGuess
SpecScore == InitScore /\ [][NextScore]_vars

Matching(g, t) == {i \in 1..Len(t) : g[i] = t[i]}
Occurrences(w, c) == Cardinality({i \in 1..Len(w) : w[i] = c})

\* C1: the marker list is as long as the input, and position i is marked
\* Correct ("G") exactly when guess[i] = target[i]; so the number of Correct
\* markers is the number of matching positions.
C1_LengthAndCorrect ==
    scorePc = "done" =>
        /\ Len(markers) = Len(guess)
        /\ \A i \in 1..Len(guess) : (markers[i] = "G") <=> (guess[i] = target[i])
        /\ Cardinality({i \in 1..Len(markers) : markers[i] = "G"})
             = Cardinality(Matching(guess, target))

\* a scored guess with a matching position that holds a letter the target
\* also has elsewhere, unmatched
C1_Witness ==
    /\ scorePc = "done" /\ Len(guess) = 3
    /\ guess = <<"a", "a", "b">> /\ target = <<"a", "b", "a">>
    /\ markers = <<"G", "Y", "Y">>

\* C2: for every letter c, the positions of the guess holding c that are
\* marked Correct or Present are no more than the occurrences of c in target.
C2_NonAbsentBounded ==
    scorePc = "done" =>
        \A c \in ScoreAlphabet :
            Cardinality({i \in 1..Len(markers) : guess[i] = c /\ markers[i] # "B"})
                <= Occurrences(target, c)

\* a letter guessed three times that the target holds once: one marker only
C2_Witness ==
    /\ scorePc = "done"
    /\ guess = <<"a", "a", "a">> /\ target = <<"b", "a", "c">>
    /\ markers = <<"B", "G", "B">>

\* C3 as stated: score_guess("aabbb", "ababa") is
\* [Correct, Present, Present, Present, Absent].
C3_Original ==
    (scorePc = "done" /\ guess = ExampleGuess /\ target = ExampleTarget)
        => markers = <<"G", "Y", "Y", "Y", "B">>

\* C3 amended: score_guess("aabbb", "ababa") is
\* [Correct, Present, Present, Correct, Absent]: positions 0 and 3 match.
C3_Example ==
    (scorePc = "done" /\ guess = ExampleGuess /\ target = ExampleTarget)
        => markers = <<"G", "Y", "Y", "G", "B">>

C3_Witness ==
    /\ scorePc = "done" /\ guess = ExampleGuess /\ target = ExampleTarget
    /\ Len(markers) = 5 /\ markers[4] = "G"

(***************************************************************************)
(* The affix expansion engine applied to parsed entries and rule tables    *)
(***************************************************************************)
Run == <<"r", "u", "n">>
Runs == <<"r", "u", "n", "s">>
Ru1 == <<"r", "u", "1">>
Dun == <<"d", "u", "n">>

\* what parse_dic_entries returns: stripped, lower-cased bases with flags
EntryPool == {<<Run, <<"S">>>>, <<Runs, <<>>>>, <<Ru1, <<"S">>>>, <<Dun, <<"S", "X">>>>}
\* what parse_aff_rules stores: fields without white space
SfxPool == {<<<<>>, <<"s">>, ".">>, <<<<"n">>, <<"e">>, "[^r]">>,
            <<<<>>, <<"S">>, ".">>, <<<<>>, <<"e">>, "[">>}
PfxPool == {<<<<>>, <<"e">>, ".">>, <<<<"r">>, <<"d">>, "u">>}
\* what _collect_dictionary_word_data passes: lower-cased non-empty suffixes
BlockedPool == {{}, {<<"s">>}, {<<"s">>, <<"e">>}}
AffixLengths == {Len(Run), Len(Runs)}

SeqsUpTo(S, n) == UNION {[1..k -> S] : k \in 0..n}
\* a rule table holding the rule list under flag "S" (no key for no rules)
TableOf(seq) == IF seq = <<>> THEN <<>> ELSE [f \in {"S"} |-> seq]

InitAffix ==
    /\ entries \in SeqsUpTo(EntryPool, MaxEntries)
    /\ \E s \in SeqsUpTo(SfxPool, MaxRules), p \in SeqsUpTo(PfxPool, MaxRules) :
          rules = [sfx |-> TableOf(s), pfx |-> TableOf(p)]
    /\ word_length \in AffixLengths
    /\ blocked_suffix_additions \in BlockedPool
    /\ expanded = {} /\ expandPc = "ready"
    /\ ScoreIdle /\ FilterIdle /\ EnvIdle /\ ProgramIdle /\ ParseIdle /\ CollectIdle /\ GameIdle

ExpandWithAffixes ==
    /\ expandPc = "ready"
    /\ expanded' = expand_with_affixes(entries, rules, word_length, blocked_suffix_additions)
    /\ expandPc' = "done"
    /\ UNCHANGED <<entries, rules, word_length, blocked_suffix_additions,
                   scoreVars, filterVars, envVars, programVars,
                   parseVars, collectVars, gameVars>>

NextAffix == ExpandWithAffixes
SpecAffix == InitAffix /\ [][NextAffix]_vars

\* C4: every word of the result has exactly the target length and holds
\* only characters of the allowed alphabet (a-z, ä, ö, ü, ß).
C4_LengthAndAlphabet ==
    expandPc = "done" =>
        \A w \in expanded :
            /\ Len(w) = word_length
            /\ \A i \in 1..Len(w) : w[i] \in LowerAscii \cup {"ä", "ö", "ü", "ß"}

\* an entry with a digit gives nothing, directly or affixed, beside an entry
\* whose affixed form is kept
C4_Witness ==
    /\ expandPc = "done" /\ word_length = 4
    /\ entries = <<<<Ru1, <<"S">>>>, <<Run, <<"S">>>>>>
    /\ rules = [sfx |-> TableOf(<<<<<<>>, <<"s">>, ".">>>>), pfx |-> <<>>]
    /\ blocked_suffix_additions = {}
    /\ expanded = {Runs}

\* the suffix table without the rules whose lower-cased addition is in B
WithoutBlocked(rls, B) ==
    LET Keep(rule) == Lower(rule[2]) \notin B
    IN [sfx |-> [f \in {g \in DOMAIN rls.sfx : SelectSeq(rls.sfx[g], Keep) # <<>>}
                    |-> SelectSeq(rls.sfx[f], Keep)],
        pfx |-> rls.pfx]

RunS == <<<<Run, <<"S">>>>>>
RuleS == [sfx |-> TableOf(<<<<<<>>, <<"s">>, ".">>>>), pfx |-> <<>>]

\* C5: with a set B of blocked suffix additions the result is the result of
\* expanding the same entries, without B, with the suffix rules whose
\* lower-cased addition is in B removed; entry ("run", "S") with rule
\* S(strip "", add "s", cond ".") and length 4 gives {"runs"} without B and
\* nothing with B = {"s"}.
C5_BlockedRulesSkipped ==
    expandPc = "done" =>
        /\ expanded = expand_with_affixes(entries,
                          WithoutBlocked(rules, blocked_suffix_additions), word_length, {})
        /\ (entries = RunS /\ rules = RuleS /\ word_length = 4) =>
              /\ blocked_suffix_additions = {} => expanded = {Runs}
              /\ blocked_suffix_additions = {<<"s">>} => expanded = {}

C5_Witness ==
    /\ expandPc = "done" /\ entries = RunS /\ rules = RuleS /\ word_length = 4
    /\ blocked_suffix_additions = {<<"s">>} /\ expanded = {}

(***************************************************************************)
(* The filter pipeline applied to generated candidate words                *)
(***************************************************************************)
Und == <<"u", "n", "d">>
DeAT == <<"d", "e", "-", "A", "T">>
Fr == <<"f", "r">>

\* candidates as _collect_dictionary_word_data yields them: normalized
\* (lower-case) words, bases possibly with a character that is no letter
WordPool == {Run, Runs, Ru1, Dun, Und}
LangPool == {En, DeAT, Fr}
ProfanePool == {{}, {Und}}

\* the JSON documents of the filters directory
GlobalFiles == {[prefixes |-> {}, suffixes |-> {<<"S">>}, blacklist |-> {},
                 blacklist_lines |-> {}],
                [prefixes |-> {}, suffixes |-> {}, blacklist |-> {},
                 blacklist_lines |-> {<<" ", "D", "u", "n", "\n">>}]}
EnFiles == {[prefixes |-> {<<"u", "n">>}, suffixes |-> {<<>>}, blacklist |-> {<<"R", "u", "n">>},
             blacklist_lines |-> {}]}
DeFiles == {[prefixes |-> {}, suffixes |-> {<<"n">>}, blacklist |-> {},
             blacklist_lines |-> {}]}

\* a directory holds a document for an archetype or not
Directory(g, e, d) ==
    [a \in {x \in {Global, En, De} :
                \/ x = Global /\ g # {}
                \/ x = En /\ e # {}
                \/ x = De /\ d # {}}
        |-> IF a = Global THEN CHOOSE x \in g : TRUE
            ELSE IF a = En THEN CHOOSE x \in e : TRUE
            ELSE CHOOSE x \in d : TRUE]
Optional(S) == {{}} \cup {{x} : x \in S}
ConfigPool ==
    {Directory(g, e, d) : g \in Optional(GlobalFiles), e \in Optional(EnFiles),
                          d \in Optional(DeFiles)}

InitFilter ==
    /\ words \in SeqsUpTo(WordPool, MaxWords)
    /\ lang \in LangPool
    /\ enable_filters \in BOOLEAN
    /\ config \in ConfigPool
    /\ profane \in ProfanePool
    /\ filtered = <<>> /\ refiltered = <<>> /\ filterPc = "ready"
    /\ ScoreIdle /\ AffixIdle /\ ProgramIdle /\ ParseIdle /\ CollectIdle /\ GameIdle

FilterCandidates ==
    /\ filterPc = "ready"
    /\ filtered' = filter_candidates(config, profane, words, lang, {}, enable_filters)
    /\ filterPc' = "filtered"
    /\ UNCHANGED <<words, lang, enable_filters, refiltered,
                   scoreVars, affixVars, envVars, programVars,
                   parseVars, collectVars, gameVars>>

\* the returned list is filtered once more with the same configuration
FilterAgain ==
    /\ filterPc = "filtered"
    /\ refiltered' = filter_candidates(config, profane, filtered, lang, {}, enable_filters)
    /\ filterPc' = "refiltered"
    /\ UNCHANGED <<words, lang, enable_filters, filtered,
                   scoreVars, affixVars, envVars, programVars,
                   parseVars, collectVars, gameVars>>

NextFilter == FilterCandidates \/ FilterAgain
SpecFilter == InitFilter /\ [][NextFilter]_vars

Ascending(ws) == \A i \in 1..(Len(ws) - 1) : StrLess(ws[i], ws[i + 1])

\* the configuration of an archetype as the claim reads it: lower-case
\* prefixes, suffixes and blacklist (listed words and blacklist files)
ClaimConfig(a) ==
    IF a \in DOMAIN config
    THEN [prefixes |-> {Lower(x) : x \in config[a].prefixes \ {<<>>}},
          suffixes |-> {Lower(x) : x \in config[a].suffixes \ {<<>>}},
          blacklist |-> {Lower(Strip(x)) :
                            x \in config[a].blacklist \cup config[a].blacklist_lines} \ {<<>>}]
    ELSE [prefixes |-> {}, suffixes |-> {}, blacklist |-> {}]

\* a word passes a filter
Passes(w, cfg) ==
    /\ w # <<>> /\ \A i \in 1..Len(w) : w[i] \notin Digits \cup Punctuation \cup Whitespace
    /\ Lower(w) \notin profane
    /\ w \notin cfg.blacklist
    /\ ~\E x \in cfg.prefixes : Len(x) <= Len(w) /\ \A i \in 1..Len(x) : Lower(w)[i] = x[i]
    /\ ~\E x \in cfg.suffixes :
           Len(x) <= Len(w) /\ \A i \in 1..Len(x) : Lower(w)[Len(w) - Len(x) + i] = x[i]

\* the archetype of a language code: the code without its region subtag
ClaimArchetype(lng) ==
    LET code == Lower(lng)
        cut == IF \E i \in 1..Len(code) : code[i] = "-"
               THEN (CHOOSE i \in 1..Len(code) :
                        code[i] = "-" /\ \A j \in 1..(i - 1) : code[j] # "-") - 1
               ELSE Len(code)
    IN SubSeq(code, 1, cut)

\* C6: with filters enabled the result is the ascending, duplicate-free list
\* of exactly the input words that pass the global filter and the filter of
\* the language's archetype.
C6_ExactlyThePassingWords ==
    (filterPc # "ready" /\ enable_filters) =>
        /\ Ascending(filtered)
        /\ Range(filtered) =
              {w \in Range(words) : /\ Passes(w, ClaimConfig(Global))
                                    /\ Passes(w, ClaimConfig(ClaimArchetype(lang)))}

\* three candidates: one ends with a suffix the global filter disallows, one
\* is blacklisted for English, one passes
C6_Witness ==
    /\ filterPc = "filtered" /\ enable_filters /\ lang = En
    /\ words = <<Runs, Run, Dun>>
    /\ Global \in DOMAIN config /\ config[Global].suffixes = {<<"S">>}
    /\ En \in DOMAIN config /\ profane = {}
    /\ filtered = <<Dun>>

\* C7: with filters disabled the result is the input without duplicates,
\* ascending, whatever the language and the configuration.
C7_DisabledOnlySorts ==
    (filterPc # "ready" /\ ~enable_filters) =>
        /\ Ascending(filtered)
        /\ Range(filtered) = Range(words)

\* a word the enabled filters would drop is kept, the duplicate is dropped
C7_Witness ==
    /\ filterPc = "filtered" /\ ~enable_filters
    /\ words = <<Runs, Ru1, Runs>>
    /\ Global \in DOMAIN config /\ config[Global].suffixes = {<<"S">>}
    /\ filtered = <<Ru1, Runs>>

\* C8: filtering the filtered list again with the same language and
\* configuration gives the same list.
C8_Idempotent == filterPc = "refiltered" => refiltered = filtered

\* a second pass over a list the first pass shortened and reordered
C8_Witness ==
    /\ filterPc = "refiltered" /\ enable_filters
    /\ words = <<Und, Dun, Ru1>> /\ profane = {Und}
    /\ filtered = <<Dun>> /\ refiltered = <<Dun>>

(***************************************************************************)
(* The program: build_validator and _load_or_build_filtered_solutions      *)
(* called for any language and length, on a file system whose caches they  *)
(* fill and that may stop taking writes                                    *)
(***************************************************************************)
Langs == {En, De}
Lengths == {Len(Run), Len(Runs)}

OneSuffixRule == [sfx |-> TableOf(<<<<<<>>, <<"s">>, ".">>>>), pfx |-> <<>>]
\* what _load_dictionary_components returns for the folder: no entries at
\* all, one word, or words of both lengths
DictionaryPool ==
    {[entries |-> <<>>, rules |-> NoRules],
     [entries |-> <<<<Run, <<"S">>>>>>, rules |-> NoRules],
     [entries |-> <<<<Run, <<"S">>>>, <<Dun, <<>>>>, <<Ru1, <<>>>>>>, rules |-> OneSuffixRule]}
\* the filters directory: empty, or with an English blacklist, or with a
\* global disallowed suffix
ProgramConfigPool ==
    {Directory({}, {}, {}), Directory({}, EnFiles, {}),
     Directory({[prefixes |-> {}, suffixes |-> {<<"S">>}, blacklist |-> {},
                 blacklist_lines |-> {}]}, {}, DeFiles)}
\* the lines of the solutions file
SolutionsPool == {<<>>, <<<<"D", "u", "n">>, Runs>>}

Init ==
    /\ dictionary \in DictionaryPool
    /\ config \in ProgramConfigPool
    /\ profane = {}
    /\ validator_cache = <<>> /\ solution_cache = <<>>
    /\ cache_dir = FALSE /\ solution_dir = FALSE
    /\ writable = TRUE
    /\ last = NoLast
    /\ ScoreIdle /\ AffixIdle /\ FilterIdle /\ ParseIdle /\ CollectIdle /\ GameIdle

\* the file system starts or stops taking writes (a read-only remount, a
\* change of permissions)
Remount ==
    /\ writable' = ~writable
    /\ UNCHANGED <<dictionary, validator_cache, solution_cache, cache_dir, solution_dir,
                   last, scoreVars, affixVars, filterVars, envVars, parseVars, collectVars, gameVars>>

\* build_validator(dict_folder, solutions, lang, word_length)
BuildValidator(lng, n, solutions) ==
    LET key == <<lng, n>>
        \* cache_path creates the cache directory when it is missing
        dir == MakeDirs(cache_dir, writable)
        cached_words == load_cache(validator_cache, lng, n)
        data == _collect_dictionary_word_data(config, dictionary, n, lng)
        call == [NoLast EXCEPT !.op = "build_validator", !.lang = lng, !.n = n,
                               !.solutions = solutions]
    IN /\ cache_dir' = dir
       /\ IF cached_words # {}
          THEN /\ last' = [call EXCEPT !.hit = TRUE, !.outcome = "ok",
                                       !.backend = "cache-only",
                                       !.allowed = cached_words
                                                   \cup SolutionsOfLength(solutions, n)]
               /\ UNCHANGED validator_cache
          ELSE IF data.raised # "none"
          THEN /\ last' = [call EXCEPT !.outcome = data.raised]
               /\ UNCHANGED validator_cache
          ELSE IF ~CanOpenForWrite(dir, writable)
          THEN \* save_cache raises, nothing is returned
               /\ last' = [call EXCEPT !.outcome = "OSError"]
               /\ UNCHANGED validator_cache
          ELSE /\ validator_cache' = WriteFile(validator_cache, key, Sorted(combined(data)))
               /\ last' = [call EXCEPT !.outcome = "ok", !.backend = ".dic/.aff cache",
                                       !.allowed = combined(data)
                                                   \cup SolutionsOfLength(solutions, n)]
       /\ UNCHANGED <<dictionary, solution_cache, solution_dir, writable,
                      scoreVars, affixVars, filterVars, envVars, parseVars, collectVars, gameVars>>

\* mutant: the solution cache is consulted whatever enable_filters says
UsesSolutionCacheAlways(enable) == TRUE

\* the test `if enable_filters:` around the cache lookup
UsesSolutionCache(enable) == enable

\* _load_or_build_filtered_solutions(lang, word_length, dict_folder, logger,
\* enable_filters=enable)
LoadOrBuildFilteredSolutions(lng, n, enable) ==
    LET key == <<lng, n>>
        \* solution_cache_path creates cache/solutions_filtered when missing;
        \* without filters no path is asked for
        dir == IF UsesSolutionCache(enable) THEN MakeDirs(solution_dir, writable)
               ELSE solution_dir
        parent == IF UsesSolutionCache(enable) THEN MakeDirs(cache_dir, writable)
                  ELSE cache_dir
        cached == IF UsesSolutionCache(enable)
                  THEN load_filtered_solution_cache(solution_cache, lng, n)
                  ELSE <<>>
        data == _collect_dictionary_word_data(config, dictionary, n, lng)
        generated_words == Sorted(combined(data))
        after_filters == filter_candidates(config, profane, generated_words, lng,
                                           data.catalog, enable)
        final == IF after_filters = <<>> THEN generated_words ELSE after_filters
        call == [NoLast EXCEPT !.op = "load_or_build", !.lang = lng, !.n = n,
                               !.enable = enable]
    IN /\ solution_dir' = dir
       /\ cache_dir' = parent
       /\ IF cached # <<>>
          THEN /\ last' = [call EXCEPT !.hit = TRUE, !.outcome = "ok", !.ret = cached]
               /\ UNCHANGED solution_cache
          ELSE IF data.raised # "none"
          THEN /\ last' = [call EXCEPT !.outcome = data.raised]
               /\ UNCHANGED solution_cache
          ELSE IF generated_words = <<>>
          THEN /\ last' = [call EXCEPT !.outcome = "ValueError"]
               /\ UNCHANGED solution_cache
          ELSE IF ~enable
          THEN /\ last' = [call EXCEPT !.outcome = "ok", !.ret = generated_words]
               /\ UNCHANGED solution_cache
          ELSE IF ~CanOpenForWrite(dir, writable)
          THEN \* save_filtered_solution_cache raises, nothing is returned
               /\ last' = [call EXCEPT !.outcome = "OSError"]
               /\ UNCHANGED solution_cache
          ELSE /\ solution_cache' = WriteFile(solution_cache, key, Sorted(Range(final)))
               /\ last' = [call EXCEPT !.outcome = "ok", !.ret = final]
       /\ UNCHANGED <<dictionary, validator_cache, writable,
                      scoreVars, affixVars, filterVars, envVars, parseVars, collectVars, gameVars>>

Next ==
    \/ Remount
    \/ \E lng \in Langs, n \in Lengths, solutions \in SolutionsPool :
          BuildValidator(lng, n, solutions)
    \/ \E lng \in Langs, n \in Lengths, enable \in BOOLEAN :
          LoadOrBuildFilteredSolutions(lng, n, enable)

Spec == Init /\ [][Next]_vars

\* what generation from the dictionary yields for a language and length
GeneratedData(lng, n) == _collect_dictionary_word_data(config, dictionary, n, lng)
GeneratedWords(lng, n) ==
    IF GeneratedData(lng, n).raised = "none" THEN Sorted(combined(GeneratedData(lng, n)))
    ELSE <<>>

\* the last call built the filtered solutions afresh, with filters enabled,
\* from a non-empty candidate list of which the filters left nothing
FilteredToEmpty ==
    /\ last.op = "load_or_build" /\ last.enable /\ ~last.hit
    /\ GeneratedWords(last.lang, last.n) # <<>>
    /\ filter_candidates(config, profane, GeneratedWords(last.lang, last.n), last.lang,
                         GeneratedData(last.lang, last.n).catalog, TRUE) = <<>>

\* C9: when the candidate list is non-empty and the filters remove every
\* word, _load_or_build_filtered_solutions returns the unfiltered list
\* instead of failing; it never returns an empty list.
C9_FallbackToUnfiltered ==
    /\ FilteredToEmpty =>
          (last.outcome = "ok" /\ last.ret = GeneratedWords(last.lang, last.n))
    /\ (last.op = "load_or_build" /\ last.outcome = "ok") => last.ret # <<>>

\* the fallback is what is returned whenever the write of the cache file
\* does not fail (not a claim: the part of C9 the code keeps)
FallbackUnlessWriteFails ==
    (FilteredToEmpty /\ last.outcome # "OSError") =>
        (last.outcome = "ok" /\ last.ret = GeneratedWords(last.lang, last.n))
FallbackReturned == FilteredToEmpty /\ last.outcome = "ok"

\* generation for the last call's language and length gave no candidate
NoCandidates ==
    \/ GeneratedData(last.lang, last.n).raised # "none"
    \/ combined(GeneratedData(last.lang, last.n)) = {}

\* C10: when generation yields no candidate of the requested length,
\* build_validator (on a cache miss) and _load_or_build_filtered_solutions
\* fail with an error; no result is returned and no empty cache file is
\* written.
C10_EmptyResultIsFatal ==
    /\ (last.op \in {"build_validator", "load_or_build"} /\ ~last.hit /\ NoCandidates)
          => last.outcome \in {"ValueError", "OSError"}
    /\ \A key \in DOMAIN validator_cache : validator_cache[key] # <<>>
    /\ \A key \in DOMAIN solution_cache : solution_cache[key] # <<>>

\* the part of C10 the code keeps: _load_or_build_filtered_solutions fails,
\* and its store never holds an empty file (not a claim)
EmptyResultFatalForSolutions ==
    /\ (last.op = "load_or_build" /\ ~last.hit /\ NoCandidates)
          => last.outcome = "ValueError"
    /\ \A key \in DOMAIN solution_cache : solution_cache[key] # <<>>

(***************************************************************************)
(* The two cache stores: save, load and clear                              *)
(***************************************************************************)
\* str(n) for a natural number
DigitChar(d) ==
    CASE d = 0 -> "0" [] d = 1 -> "1" [] d = 2 -> "2" [] d = 3 -> "3" [] d = 4 -> "4"
      [] d = 5 -> "5" [] d = 6 -> "6" [] d = 7 -> "7" [] d = 8 -> "8" [] d = 9 -> "9"
RECURSIVE Str(_)
Str(n) == IF n < 10 THEN <<DigitChar(n)>> ELSE Str(n \div 10) \o <<DigitChar(n % 10)>>

\* the name of the validator cache file, f"{lang}_{word_length}_utf-8.txt"
cache_file_name(lng, n) ==
    lng \o <<"_">> \o Str(n) \o <<"_", "u", "t", "f", "-", "8", ".", "t", "x", "t">>
\* the name of the filtered-solution cache file, f"{lang}_{word_length}.txt"
solution_file_name(lng, n) == lng \o <<"_">> \o Str(n) \o <<".", "t", "x", "t">>

\* target_prefix of the clear operations; None (written <<>>) when there is
\* no scope
target_prefix(scope) ==
    IF scope = <<>> \/ Lower(Strip(scope)) = <<>> THEN <<>>
    ELSE Lower(Strip(scope)) \o <<"_">>

ClearMatchesScopedOnly(entry, scope) ==
    /\ EndsWith(Lower(entry), <<".", "t", "x", "t">>)
    /\ target_prefix(scope) # <<>> /\ StartsWith(Lower(entry), target_prefix(scope))

\* the loop test of the clear operations: the directory entry is removed
ClearMatches(entry, scope) ==
    /\ EndsWith(Lower(entry), <<".", "t", "x", "t">>)
    /\ target_prefix(scope) = <<>> \/ StartsWith(Lower(entry), target_prefix(scope))

\* the files left by the loop: os.remove fails on a file system that takes
\* no writes, and the loop goes on
RemoveMatching(store, names, scope, can_write) ==
    IF ~can_write THEN store
    ELSE [k \in {key \in DOMAIN store : ~ClearMatches(names[key], scope)} |-> store[k]]
\* os.listdir: the names of the files of the two stores
CacheFileNames(store) == [key \in DOMAIN store |-> cache_file_name(key[1], key[2])]
SolutionFileNames(store) == [key \in DOMAIN store |-> solution_file_name(key[1], key[2])]

\* a base that parse_dic_entries returns for the line "run /S": the blank
\* before the flags stays in the base
RunBlank == <<"r", "u", "n", " ">>
EnUS == <<"e", "n", "_", "u", "s">>
\* language codes are the lower-cased names of the dictionary folders
StoreLangs == {En, EnUS, De}
StoreKeys == {<<En, Len(Run)>>, <<En, Len(Runs)>>, <<EnUS, Len(Run)>>, <<De, Len(Run)>>}
\* the word sets the program saves under a key: candidates of that length
SavedPool(n) ==
    IF n = Len(Run) THEN {{Run}, {Run, Dun}} ELSE {{Runs}, {RunBlank, Runs}}
\* None (written <<>>) or a language code
ScopePool == {<<>>} \cup StoreLangs
\* the number of cache files on disk stays within MaxFiles
MaxFiles == 2
Files(vstore, sstore) == Cardinality(DOMAIN vstore) + Cardinality(DOMAIN sstore)

InitStore ==
    /\ validator_cache = <<>> /\ solution_cache = <<>>
    /\ cache_dir = FALSE /\ solution_dir = FALSE
    /\ writable = TRUE
    /\ last = NoLast
    /\ dictionary = [entries |-> <<>>, rules |-> NoRules]
    /\ ScoreIdle /\ AffixIdle /\ FilterIdle /\ EnvIdle /\ ParseIdle /\ CollectIdle /\ GameIdle

\* save_cache(lang, word_length, words)
SaveCache(lng, n, ws) ==
    LET dir == MakeDirs(cache_dir, writable)
        call == [NoLast EXCEPT !.op = "save_cache", !.lang = lng, !.n = n, !.words = ws]
    IN /\ cache_dir' = dir
       /\ IF CanOpenForWrite(dir, writable)
          THEN /\ validator_cache' = WriteFile(validator_cache, <<lng, n>>, Sorted(ws))
               /\ Files(validator_cache', solution_cache) <= MaxFiles
               /\ last' = [call EXCEPT !.outcome = "ok"]
          ELSE /\ last' = [call EXCEPT !.outcome = "OSError"]
               /\ UNCHANGED validator_cache
       /\ UNCHANGED <<dictionary, solution_cache, solution_dir, writable,
                      scoreVars, affixVars, filterVars, envVars, parseVars, collectVars, gameVars>>

\* load_cache(lang, word_length)
LoadCache(lng, n) ==
    /\ cache_dir' = MakeDirs(cache_dir, writable)
    /\ last' = [NoLast EXCEPT !.op = "load_cache", !.lang = lng, !.n = n,
                              !.outcome = "ok",
                              !.hit = HasFile(validator_cache, <<lng, n>>),
                              !.allowed = load_cache(validator_cache, lng, n)]
    /\ UNCHANGED <<dictionary, validator_cache, solution_cache, solution_dir, writable,
                   scoreVars, affixVars, filterVars, envVars, parseVars, collectVars, gameVars>>

\* save_filtered_solution_cache(lang, word_length, words)
SaveFilteredSolutionCache(lng, n, ws) ==
    LET dir == MakeDirs(solution_dir, writable)
        call == [NoLast EXCEPT !.op = "save_filtered_solution_cache", !.lang = lng,
                               !.n = n, !.words = ws]
    IN /\ solution_dir' = dir
       /\ cache_dir' = MakeDirs(cache_dir, writable)
       /\ IF CanOpenForWrite(dir, writable)
          THEN /\ solution_cache' = WriteFile(solution_cache, <<lng, n>>, Sorted(ws))
               /\ Files(validator_cache, solution_cache') <= MaxFiles
               /\ last' = [call EXCEPT !.outcome = "ok"]
          ELSE /\ last' = [call EXCEPT !.outcome = "OSError"]
               /\ UNCHANGED solution_cache
       /\ UNCHANGED <<dictionary, validator_cache, writable,
                      scoreVars, affixVars, filterVars, envVars, parseVars, collectVars, gameVars>>

\* load_filtered_solution_cache(lang, word_length)
LoadFilteredSolutionCache(lng, n) ==
    /\ solution_dir' = MakeDirs(solution_dir, writable)
    /\ cache_dir' = MakeDirs(cache_dir, writable)
    /\ last' = [NoLast EXCEPT !.op = "load_filtered_solution_cache", !.lang = lng,
                              !.n = n, !.outcome = "ok",
                              !.hit = HasFile(solution_cache, <<lng, n>>),
                              !.ret = load_filtered_solution_cache(solution_cache, lng, n)]
    /\ UNCHANGED <<dictionary, validator_cache, solution_cache, writable,
                   scoreVars, affixVars, filterVars, envVars, parseVars, collectVars, gameVars>>

\* clear_cache(lang): scope is the lang argument, <<>> for None
ClearCache(scope) ==
    LET left == RemoveMatching(validator_cache, CacheFileNames(validator_cache), scope,
                               writable)
        \* os.rmdir succeeds on an empty directory of a writable file system
        removed == /\ target_prefix(scope) = <<>> /\ writable
                   /\ DOMAIN left = {} /\ ~solution_dir
    IN /\ IF ~cache_dir
          THEN UNCHANGED <<validator_cache, cache_dir>>
          ELSE /\ validator_cache' = left
               /\ cache_dir' = ~removed
       /\ last' = [NoLast EXCEPT !.op = "clear_cache", !.scope = scope, !.outcome = "ok",
                                 !.removed = DOMAIN validator_cache \ DOMAIN validator_cache']
       /\ UNCHANGED <<dictionary, solution_cache, solution_dir, writable,
                      scoreVars, affixVars, filterVars, envVars, parseVars, collectVars, gameVars>>

\* clear_filtered_solution_cache(lang)
ClearFilteredSolutionCache(scope) ==
    LET \* _ensure_solution_cache_dir
        dir == MakeDirs(solution_dir, writable)
        left == RemoveMatching(solution_cache, SolutionFileNames(solution_cache), scope,
                               writable)
        removed == target_prefix(scope) = <<>> /\ writable /\ DOMAIN left = {}
    IN /\ cache_dir' = MakeDirs(cache_dir, writable)
       /\ IF ~dir
          THEN UNCHANGED <<solution_cache, solution_dir>>
          ELSE /\ solution_cache' = left
               /\ solution_dir' = ~removed
       /\ last' = [NoLast EXCEPT !.op = "clear_filtered_solution_cache",
                                 !.scope = scope, !.outcome = "ok",
                                 !.removed = DOMAIN solution_cache \ DOMAIN solution_cache']
       /\ UNCHANGED <<dictionary, validator_cache, writable,
                      scoreVars, affixVars, filterVars, envVars, parseVars, collectVars, gameVars>>

NextStore ==
    \/ Remount
    \/ \E key \in StoreKeys :
          \/ \E ws \in SavedPool(key[2]) :
                \/ SaveCache(key[1], key[2], ws)
                \/ SaveFilteredSolutionCache(key[1], key[2], ws)
          \/ LoadCache(key[1], key[2])
          \/ LoadFilteredSolutionCache(key[1], key[2])
    \/ \E scope \in ScopePool :
          \/ ClearCache(scope)
          \/ ClearFilteredSolutionCache(scope)

SpecStore == InitStore /\ [][NextStore]_vars

\* C11: for both caches, saving a collection of words under a key and then
\* loading the same key returns exactly the sorted, deduplicated set of the
\* words that were saved.
C11_RoundTrip ==
    [][/\ (last.op = "save_cache" /\ last.outcome = "ok"
            /\ LoadCache(last.lang, last.n))
          => last'.allowed = last.words
       /\ (last.op = "save_filtered_solution_cache" /\ last.outcome = "ok"
            /\ LoadFilteredSolutionCache(last.lang, last.n))
          => last'.ret = Sorted(last.words)]_vars

\* the part of C11 the code keeps: words without a blank at either end come
\* back as they were saved (not a claim)
RoundTripOfStrippedWords ==
    [][/\ (last.op = "save_cache" /\ last.outcome = "ok"
            /\ LoadCache(last.lang, last.n) /\ \A w \in last.words : Strip(w) = w)
          => last'.allowed = last.words
       /\ (last.op = "save_filtered_solution_cache" /\ last.outcome = "ok"
            /\ LoadFilteredSolutionCache(last.lang, last.n)
            /\ \A w \in last.words : Strip(w) = w)
          => last'.ret = Sorted(last.words)]_vars

\* the entries of a store whose key language is given, or is another one
OfLanguage(store, lng) == {key \in DOMAIN store : key[1] = lng}
Except(store, keys) == [k \in DOMAIN store \ keys |-> store[k]]

\* C12: clearing a cache with a language scope L removes exactly the entries
\* of that store whose key language is L, for every word length, and leaves
\* every entry of every other language present and unchanged.
C12_ScopedClearRemovesOnlyThatLanguage ==
    [][\A scope \in StoreLangs :
          /\ ClearCache(scope)
                => validator_cache' = Except(validator_cache,
                                             OfLanguage(validator_cache, scope))
          /\ ClearFilteredSolutionCache(scope)
                => solution_cache' = Except(solution_cache,
                                            OfLanguage(solution_cache, scope))]_vars

\* what the scoped clear does where files can be deleted: it removes the
\* files whose name starts with the scope and an underscore, those of the
\* scope's language among them, and no other (not a claim)
HasPrefix(store, names, scope) ==
    {key \in DOMAIN store : StartsWith(names[key], scope \o <<"_">>)}
ScopedClearRemovesByPrefix ==
    [][\A scope \in StoreLangs :
          /\ (writable /\ cache_dir /\ ClearCache(scope))
                => /\ validator_cache'
                        = Except(validator_cache,
                                 HasPrefix(validator_cache, CacheFileNames(validator_cache),
                                           scope))
                   /\ OfLanguage(validator_cache', scope) = {}
          /\ (writable /\ ClearFilteredSolutionCache(scope))
                => /\ solution_cache'
                        = Except(solution_cache,
                                 HasPrefix(solution_cache, SolutionFileNames(solution_cache),
                                           scope))
                   /\ OfLanguage(solution_cache', scope) = {}]_vars
\* a scoped clear has removed an entry of another language
RemovedOtherLanguage ==
    /\ last.op \in {"clear_cache", "clear_filtered_solution_cache"}
    /\ last.scope # <<>>
    /\ \E key \in last.removed : key[1] # last.scope

BuildValidatorStep ==
    last'.op = "build_validator" /\ BuildValidator(last'.lang, last'.n, last'.solutions)
LoadOrBuildStep ==
    /\ last'.op = "load_or_build" /\ last'.enable
    /\ LoadOrBuildFilteredSolutions(last'.lang, last'.n, TRUE)

\* C14: for both caches a lookup is a hit exactly when the cache file for
\* the key exists: an existing file is served as it is, without a new
\* generation and without a write, and only a missing file triggers the
\* generation followed by a write of the whole result.
C14_HitIffFileExists ==
    [][/\ BuildValidatorStep
            => /\ last'.hit <=> HasFile(validator_cache, <<last'.lang, last'.n>>)
               /\ last'.hit => /\ UNCHANGED validator_cache
                                /\ last'.backend = "cache-only"
               /\ (~last'.hit /\ last'.outcome = "ok")
                     => validator_cache'[<<last'.lang, last'.n>>]
                          = Sorted(combined(GeneratedData(last'.lang, last'.n)))
       /\ LoadOrBuildStep
            => /\ last'.hit <=> HasFile(solution_cache, <<last'.lang, last'.n>>)
               /\ last'.hit => /\ UNCHANGED solution_cache
                                /\ last'.ret = solution_cache[<<last'.lang, last'.n>>]
               /\ (~last'.hit /\ last'.outcome = "ok")
                     => solution_cache'[<<last'.lang, last'.n>>] = last'.ret]_vars

\* what the code does: a lookup is a hit exactly when the file exists and
\* holds at least one word (not a claim)
HitIffFileHoldsWords ==
    [][/\ BuildValidatorStep
            => (last'.hit <=> load_cache(validator_cache, last'.lang, last'.n) # {})
       /\ LoadOrBuildStep
            => (last'.hit
                  <=> load_filtered_solution_cache(solution_cache, last'.lang, last'.n)
                        # <<>>)]_vars

\* _transliterate_german
RECURSIVE _transliterate_german(_)
_transliterate_german(w) ==
    IF w = <<>> THEN <<>>
    ELSE (CASE Head(w) = "ä" -> <<"a", "e">>
            [] Head(w) = "ö" -> <<"o", "e">>
            [] Head(w) = "ü" -> <<"u", "e">>
            [] Head(w) = "ß" -> <<"s", "s">>
            [] OTHER -> <<Head(w)>>) \o _transliterate_german(Tail(w))

\* is_valid(word) of the validator that build_validator returned for lng
\* with the allowed set allowed_len
is_valid(allowed_len, lng, word) ==
    LET wn == _normalize_word(word)
    IN \/ wn \in allowed_len
       \/ Lower(lng) = De /\ _transliterate_german(wn) \in allowed_len

\* C15: the validator that build_validator returns accepts every word of
\* the solutions list whose length is the target length, whether the allowed
\* set came from the validator cache or was built from the dictionary; the
\* solutions are not written into the validator cache, whose files hold the
\* generated candidates only.
C15_SolutionsAccepted ==
    /\ (last.op = "build_validator" /\ last.outcome = "ok")
          => \A i \in DOMAIN last.solutions :
                Len(last.solutions[i]) = last.n
                   => is_valid(last.allowed, last.lang, last.solutions[i])
    /\ \A key \in DOMAIN validator_cache :
          validator_cache[key] = Sorted(combined(GeneratedData(key[1], key[2])))
\* a validator served from the cache accepts a solution that is not in the
\* cache file
C15_Witness ==
    /\ last.op = "build_validator" /\ last.outcome = "ok" /\ last.hit
    /\ \E i \in DOMAIN last.solutions :
          /\ Len(last.solutions[i]) = last.n
          /\ _normalize_word(last.solutions[i])
                \notin Range(validator_cache[<<last.lang, last.n>>])
          /\ is_valid(last.allowed, last.lang, last.solutions[i])

\* C16: a failure to write a cache file is never fatal: build_validator and
\* _load_or_build_filtered_solutions still return their in-memory result.
C16_WriteFailureNotFatal ==
    /\ last.op \in {"build_validator", "load_or_build"} => last.outcome # "OSError"
    /\ (last.op = "build_validator" /\ ~last.hit
         /\ GeneratedData(last.lang, last.n).raised = "none")
          => /\ last.outcome = "ok"
             /\ last.allowed = combined(GeneratedData(last.lang, last.n))
                                \cup SolutionsOfLength(last.solutions, last.n)
    /\ (last.op = "load_or_build" /\ ~last.hit /\ GeneratedWords(last.lang, last.n) # <<>>)
          => last.outcome = "ok" /\ last.ret # <<>>

\* the only failures of the two operations besides the empty result are
\* failed writes: an OSError is raised exactly by a save on a file system
\* that takes no writes (not a claim)
OSErrorOnlyWhenNotWritable ==
    [][(last'.op \in {"build_validator", "load_or_build"} /\ last'.outcome = "OSError"
        /\ last' # last) => ~writable]_vars

\* the word holds only characters of the allowed alphabet
OnlyAllowedLetters(w) == \A i \in 1..Len(w) : w[i] \in AllowedLetters

\* C17: every word of the combined candidate set built by
\* _collect_dictionary_word_data (base_words and affixed_words, the set
\* persisted in the validator cache) consists only of characters of the
\* allowed alphabet, whether it is a dictionary entry or comes from affix
\* expansion.
C17_CombinedOnlyAllowedAlphabet ==
    /\ (last.op \in {"build_validator", "load_or_build"} /\ ~last.hit)
          => \A w \in combined(GeneratedData(last.lang, last.n)) : OnlyAllowedLetters(w)
    /\ \A key \in DOMAIN validator_cache :
          \A w \in Range(validator_cache[key]) : OnlyAllowedLetters(w)

\* the part of C17 the code keeps: the words that come from affix expansion
\* hold only allowed characters (not a claim)
AffixedOnlyAllowedAlphabet ==
    (last.op \in {"build_validator", "load_or_build"} /\ ~last.hit)
       => \A w \in GeneratedData(last.lang, last.n).affixed_words : OnlyAllowedLetters(w)

(***************************************************************************)
(* The parsers of the .aff and .dic files                                  *)
(***************************************************************************)
\* the text of a field as one string (rule tables are keyed by the flag
\* string and hold the condition as a string)
RECURSIVE Text(_)
Text(w) == IF w = <<>> THEN "" ELSE Head(w) \o Text(Tail(w))

\* str.split(): the maximal runs of characters that are not white space
RECURSIVE TakeField(_)
TakeField(w) ==
    IF w = <<>> \/ Head(w) \in Whitespace THEN <<>>
    ELSE <<Head(w)>> \o TakeField(Tail(w))
RECURSIVE Split(_)
Split(w) ==
    IF w = <<>> THEN <<>>
    ELSE IF Head(w) \in Whitespace THEN Split(Tail(w))
    ELSE <<TakeField(w)>> \o Split(SubSeq(w, Len(TakeField(w)) + 1, Len(w)))

\* str.isdigit()
IsDigit(w) == w # <<>> /\ \A i \in 1..Len(w) : w[i] \in Digits

\* AffRules.add_rule
add_rule(rls, is_suffix, flag, strip, add, cond) ==
    LET store == IF is_suffix THEN rls.sfx ELSE rls.pfx
        lst == [f \in DOMAIN store \cup {flag}
                   |-> RulesFor(store, f) \o (IF f = flag THEN <<<<strip, add, cond>>>>
                                              ELSE <<>>)]
    IN IF is_suffix THEN [rls EXCEPT !.sfx = lst] ELSE [rls EXCEPT !.pfx = lst]

\* the value "0" of STRIP or ADD is the empty string
ZeroIsEmpty(field) == IF field = <<"0">> THEN <<>> ELSE field

\* the body of the loop of parse_aff_rules for one line
AffLine(rls, line) ==
    LET stripped == Strip(line)
        parts == Split(stripped)
    IN IF stripped = <<>> \/ Head(stripped) = "#" THEN rls
       ELSE IF Len(parts) < 4 THEN rls
       ELSE IF Text(parts[1]) \notin {"SFX", "PFX"} THEN rls
       ELSE IF Len(parts) >= 5 /\ Text(parts[3]) # "Y" /\ Text(parts[3]) # "N"
       THEN add_rule(rls, Text(parts[1]) = "SFX", Text(parts[2]),
                     ZeroIsEmpty(parts[3]), ZeroIsEmpty(parts[4]),
                     IF Len(parts) >= 5 THEN Text(parts[5]) ELSE ".")
       ELSE rls

RECURSIVE AffLoop(_, _)
AffLoop(rls, lines) ==
    IF lines = <<>> THEN rls ELSE AffLoop(AffLine(rls, Head(lines)), Tail(lines))

\* parse_aff_rules(aff_path)
parse_aff_rules(file) == IF ~file.exists THEN NoRules ELSE AffLoop(NoRules, file.lines)

\* stripped.split("/", 1) if "/" in stripped else (stripped, "")
RECURSIVE BeforeSlash(_)
BeforeSlash(w) ==
    IF w = <<>> \/ Head(w) = "/" THEN <<>> ELSE <<Head(w)>> \o BeforeSlash(Tail(w))
SplitSlash(w) ==
    IF "/" \in Range(w)
    THEN <<BeforeSlash(w), SubSeq(w, Len(BeforeSlash(w)) + 2, Len(w))>>
    ELSE <<w, <<>>>>

FirstAlways(first) == first

\* the flag first after the first non-blank line (first = False)
FirstAfterLine(first) == FALSE

\* the loop of parse_dic_entries
RECURSIVE DicLoop(_, _)
DicLoop(lines, first) ==
    IF lines = <<>> THEN <<>>
    ELSE LET stripped == Strip(Head(lines))
         IN IF stripped = <<>> THEN DicLoop(Tail(lines), first)
            ELSE IF first /\ IsDigit(stripped)
            THEN DicLoop(Tail(lines), FirstAfterLine(first))
            ELSE <<<<_normalize_word(SplitSlash(stripped)[1]), SplitSlash(stripped)[2]>>>>
                 \o DicLoop(Tail(lines), FirstAfterLine(first))

\* parse_dic_entries(dic_path), the file being there
parse_dic_entries(file) == DicLoop(file.lines, TRUE)

(***************************************************************************)
(* The parsers applied to files                                            *)
(***************************************************************************)
\* a header line
HeaderLine == <<"S", "F", "X", " ", "S", " ", "Y", " ", "1">>
\* a rule line with its condition
RuleLine == <<"S", "F", "X", " ", "S", " ", "0", " ", "s", " ", ".">>
\* a second rule of the same flag, with blanks around the fields
SecondRuleLine == <<" ", "S", "F", "X", " ", "S", " ", "n", " ", " ", "e", " ", "[", "^", "r", "]", " ">>
\* a rule line of four fields, without condition
BareRuleLine == <<"S", "F", "X", " ", "S", " ", "0", " ", "s">>
\* a prefix rule line of four fields
BarePrefixLine == <<"P", "F", "X", " ", "S", " ", "r", " ", "0">>
\* a prefix rule line
PrefixLine == <<"P", "F", "X", " ", "S", " ", "r", " ", "0", " ", "u">>
\* a comment
CommentLine == <<"#", " ", "s">>
\* a blank line
BlankLine == <<" ">>
\* a line with too few fields
ShortLine == <<"S", "F", "X", " ", "S">>
\* a line of another directive
OtherLine == <<"S", "E", "T", " ", "S", " ", "0", " ", "s", " ", ".">>
\* the entry count
CountLine == <<"1">>
\* a number with blanks around it
PaddedCountLine == <<" ", "1", " ">>
\* an entry with a flag
EntryLine == <<"r", "u", "n", "/", "S">>
\* an entry without flags, with an upper-case letter
UpperEntryLine == <<"D", "u", "n">>
\* an entry with a blank before the slash
BlankBeforeFlags == <<"r", "u", "n", " ", "/", "S">>
\* an entry with two slashes
TwoSlashLine == <<"a", "/", "b", "/", "c">>
\* an entry with a decomposed umlaut
DecomposedLine == <<"u", "¨", "n", "/", "S">>
AffLinePool == {HeaderLine, RuleLine, SecondRuleLine, BareRuleLine, BarePrefixLine, PrefixLine, CommentLine, BlankLine, ShortLine, OtherLine}
DicLinePool == {CountLine, PaddedCountLine, EntryLine, UpperEntryLine, BlankBeforeFlags, TwoSlashLine, DecomposedLine, BlankLine}
MaxAffLines == 2
MaxDicLines == 3
AffFiles == {NoFile} \cup {[exists |-> TRUE, lines |-> l] : l \in SeqsUpTo(AffLinePool, MaxAffLines)}
DicFiles == {[exists |-> TRUE, lines |-> l] : l \in SeqsUpTo(DicLinePool, MaxDicLines)}

\* a parser is about to be called on a file
InitParse ==
    /\ \/ aff_file \in AffFiles /\ dic_file = NoFile /\ parsePc = "aff"
       \/ dic_file \in DicFiles /\ aff_file = NoFile /\ parsePc = "dic"
    /\ aff_rules = NoRules /\ dic_entries = <<>>
    /\ ScoreIdle /\ AffixIdle /\ FilterIdle /\ EnvIdle /\ ProgramIdle /\ CollectIdle /\ GameIdle

ParseAffRules ==
    /\ parsePc = "aff"
    /\ aff_rules' = parse_aff_rules(aff_file)
    /\ parsePc' = "aff parsed"
    /\ UNCHANGED <<aff_file, dic_file, dic_entries,
                   scoreVars, affixVars, filterVars, envVars, programVars,
                   collectVars, gameVars>>

ParseDicEntries ==
    /\ parsePc = "dic"
    /\ dic_entries' = parse_dic_entries(dic_file)
    /\ parsePc' = "dic parsed"
    /\ UNCHANGED <<aff_file, dic_file, aff_rules,
                   scoreVars, affixVars, filterVars, envVars, programVars,
                   collectVars, gameVars>>

NextParse == ParseAffRules \/ ParseDicEntries
SpecParse == InitParse /\ [][NextParse]_vars

\* a rule line: not blank, not a comment, SFX or PFX, at least min fields,
\* the third field not exactly Y or N
IsRuleLine(line, min) ==
    LET parts == Split(Strip(line))
    IN /\ Len(parts) >= min
       /\ Text(parts[1]) \in {"SFX", "PFX"}
       /\ Text(parts[3]) \notin {"Y", "N"}
\* the fields TYPE FLAG STRIP ADD [CONDITION] of a rule line
TypeOf(line) == Text(Split(Strip(line))[1])
FlagOf(line) == Text(Split(Strip(line))[2])
RuleOf(line) ==
    LET parts == Split(Strip(line))
    IN <<IF parts[3] = <<"0">> THEN <<>> ELSE parts[3],
         IF parts[4] = <<"0">> THEN <<>> ELSE parts[4],
         IF Len(parts) >= 5 THEN Text(parts[5]) ELSE ".">>
\* the rules of the rule lines of a type and flag, in file order
RECURSIVE RulesInOrder(_, _, _, _)
RulesInOrder(lines, type, flag, min) ==
    IF lines = <<>> THEN <<>>
    ELSE (IF IsRuleLine(Head(lines), min) /\ TypeOf(Head(lines)) = type
             /\ FlagOf(Head(lines)) = flag
          THEN <<RuleOf(Head(lines))>> ELSE <<>>)
         \o RulesInOrder(Tail(lines), type, flag, min)
FlagsIn(lines, type, min) ==
    {FlagOf(lines[i]) : i \in {k \in DOMAIN lines :
                                  IsRuleLine(lines[k], min) /\ TypeOf(lines[k]) = type}}
TableIs(table, lines, type, min) ==
    /\ DOMAIN table = FlagsIn(lines, type, min)
    /\ \A flag \in DOMAIN table : table[flag] = RulesInOrder(lines, type, flag, min)

\* C18: a rule line with exactly four fields (SFX or PFX, FLAG, STRIP, ADD,
\* the third field not Y or N) gives a rule for that flag whose condition is
\* the match-any condition "."; the rule is not dropped.
C18_FourFieldRuleKept ==
    parsePc = "aff parsed"
       => \A i \in DOMAIN aff_file.lines :
             (IsRuleLine(aff_file.lines[i], 4) /\ Len(Split(Strip(aff_file.lines[i]))) = 4)
                => LET line == aff_file.lines[i]
                       table == IF TypeOf(line) = "SFX" THEN aff_rules.sfx
                                ELSE aff_rules.pfx
                   IN \E k \in DOMAIN RulesFor(table, FlagOf(line)) :
                         /\ RulesFor(table, FlagOf(line))[k] = RuleOf(line)
                         /\ RuleOf(line)[3] = "."

\* C19: a missing file gives empty tables; blank lines, comment lines,
\* header lines and malformed lines give no rule; the tables hold, per flag
\* and in file order, exactly the rules of the well-formed rule lines (at
\* least four fields), with the STRIP or ADD value "0" stored as the empty
\* string.
C19_ExactlyTheRuleLines ==
    parsePc = "aff parsed"
       => IF ~aff_file.exists THEN aff_rules = NoRules
          ELSE /\ TableIs(aff_rules.sfx, aff_file.lines, "SFX", 4)
               /\ TableIs(aff_rules.pfx, aff_file.lines, "PFX", 4)

\* what the parser keeps of C18 and C19: the tables hold exactly the rules
\* of the rule lines that have five fields or more (not a claim)
ExactlyTheFiveFieldRuleLines ==
    parsePc = "aff parsed"
       => IF ~aff_file.exists THEN aff_rules = NoRules
          ELSE /\ TableIs(aff_rules.sfx, aff_file.lines, "SFX", 5)
               /\ TableIs(aff_rules.pfx, aff_file.lines, "PFX", 5)

\* the non-blank lines of a file, stripped, in file order
NonBlank(lines) == StrippedLines(lines)
\* the entry of a stripped line: split at the first slash, base normalized
EntryOf(stripped) ==
    IF \E i \in DOMAIN stripped : stripped[i] = "/"
    THEN LET slash == CHOOSE i \in DOMAIN stripped :
                         stripped[i] = "/" /\ \A j \in 1..(i - 1) : stripped[j] # "/"
         IN <<Lower(NFC(SubSeq(stripped, 1, slash - 1))),
              SubSeq(stripped, slash + 1, Len(stripped))>>
    ELSE <<Lower(NFC(stripped)), <<>>>>

\* C20: parse_dic_entries drops a purely numeric line only when it is the
\* first non-blank line of the file; a purely numeric line at a later
\* position is returned as an entry with empty flags, and every other
\* non-blank line gives exactly one entry, split on the first "/" into
\* (normalized base, flags), in file order.
C20_OnlyLeadingCountDropped ==
    parsePc = "dic parsed"
       => LET lines == NonBlank(dic_file.lines)
              body == IF lines # <<>> /\ IsDigit(lines[1]) THEN Tail(lines) ELSE lines
          IN dic_entries = [i \in 1..Len(body) |-> EntryOf(body[i])]
\* a file whose first non-blank line is a count and whose next line is a
\* number too: the second number is an entry
C20_Witness ==
    /\ parsePc = "dic parsed"
    /\ dic_file.lines = <<BlankLine, CountLine, PaddedCountLine>>
    /\ dic_entries = <<<<<<"1">>, <<>>>>>>

(***************************************************************************)
(* The allocation of Present markers                                       *)
(***************************************************************************)
\* the positions that are not Correct
NonCorrect(g, t) == {i \in 1..Len(t) : g[i] # t[i]}

\* C21: Present markers are allocated left to right from the tally of the
\* target letters at non-Correct positions: a non-Correct position i is
\* Present iff the earlier non-Correct positions holding guess[i] are fewer
\* than the non-Correct positions of the target holding guess[i]; otherwise
\* it is Absent.
C21_PresentLeftToRight ==
    scorePc = "done" =>
        \A i \in NonCorrect(guess, target) :
            LET earlier == {j \in NonCorrect(guess, target) : j < i /\ guess[j] = guess[i]}
                tally == {k \in NonCorrect(guess, target) : target[k] = guess[i]}
            IN /\ markers[i] \in {"Y", "B"}
               /\ (markers[i] = "Y") <=> (Cardinality(earlier) < Cardinality(tally))
\* a letter guessed twice off position that the target holds once off
\* position: the left one is Present, the right one Absent
C21_Witness ==
    /\ scorePc = "done"
    /\ guess = <<"a", "a", "b">> /\ target = <<"b", "b", "a">>
    /\ markers = <<"Y", "B", "Y">>

(***************************************************************************)
(* At most one rule per candidate                                          *)
(***************************************************************************)
\* the flags of an entry as a set
FlagsOf(entry) == Range(entry[2])

\* w is base with strip taken from its end and add appended
BySuffixRule(w, base, rule) ==
    /\ EndsWith(base, rule[1])
    /\ w = SubSeq(base, 1, Len(base) - Len(rule[1])) \o rule[2]

\* w is base with strip taken from its start and add put in front
ByPrefixRule(w, base, rule) ==
    /\ StartsWith(base, rule[1])
    /\ w = rule[2] \o SubSeq(base, Len(rule[1]) + 1, Len(base))

\* w comes from the entry by no rule or by exactly one rule of one of the
\* entry's flags
FromEntry(w, entry, rls) ==
    \/ w = entry[1]
    \/ \E flag \in FlagsOf(entry) \cap DOMAIN rls.sfx :
          \E k \in DOMAIN rls.sfx[flag] : BySuffixRule(w, entry[1], rls.sfx[flag][k])
    \/ \E flag \in FlagsOf(entry) \cap DOMAIN rls.pfx :
          \E k \in DOMAIN rls.pfx[flag] : ByPrefixRule(w, entry[1], rls.pfx[flag][k])

\* C22: the expansion applies at most one rule per candidate: every word
\* of the result is the base of some entry, or one suffix rule or one
\* prefix rule applied to one entry's base, the rule's flag occurring in
\* the entry's flags; no prefix is combined with a suffix; an entry with
\* empty flags contributes at most its base and a flag with no rules
\* contributes nothing.
C22_AtMostOneRule ==
    expandPc = "done" =>
        /\ \A w \in expanded : \E e \in DOMAIN entries : FromEntry(w, entries[e], rules)
        /\ (\A e \in DOMAIN entries :
               FlagsOf(entries[e]) \cap (DOMAIN rules.sfx \cup DOMAIN rules.pfx) = {})
             => expanded \subseteq {entries[e][1] : e \in DOMAIN entries}

\* "run" with a suffix rule (add "s") and a prefix rule (strip "r", add
\* "d") under its flag: "runs" is generated, the combination "duns" is not
C22_Witness ==
    /\ expandPc = "done" /\ word_length = 4
    /\ entries = <<<<Run, <<"S">>>>>>
    /\ rules = [sfx |-> TableOf(<<<<<<>>, <<"s">>, ".">>>>),
                pfx |-> TableOf(<<<<<<"r">>, <<"d">>, "u">>>>)]
    /\ blocked_suffix_additions = {}
    /\ expanded = {Runs}
    /\ <<"d", "u", "n", "s">> \notin expanded

(***************************************************************************)
(* Conditions that are not regular expressions                             *)
(***************************************************************************)
\* the rule list with every condition that does not compile replaced by the
\* empty condition, which is never tested
Satisfied(seq) ==
    [k \in DOMAIN seq |->
        IF CondIsValid(seq[k][3]) THEN seq[k] ELSE <<seq[k][1], seq[k][2], "">>]
WithInvalidSatisfied(rls) ==
    [sfx |-> [f \in DOMAIN rls.sfx |-> Satisfied(rls.sfx[f])],
     pfx |-> [f \in DOMAIN rls.pfx |-> Satisfied(rls.pfx[f])]]

\* some rule of the table has a condition that does not compile
HasInvalidCond(table) ==
    \E f \in DOMAIN table : \E k \in DOMAIN table[f] : ~CondIsValid(table[f][k][3])

\* C23: a rule whose condition is not a valid regular expression is
\* treated as satisfied: the expansion yields a result, the result is the
\* one obtained with the condition taken as always true, so the other
\* entries and rules are unaffected, and the candidate of such a suffix
\* rule (not skipped as blocked) is in the result whenever the strip, the
\* length and the alphabet tests pass.
C23_InvalidConditionSatisfied ==
    expandPc = "done" =>
        /\ expanded = expand_with_affixes(entries, WithInvalidSatisfied(rules),
                                          word_length, blocked_suffix_additions)
        /\ \A e \in DOMAIN entries :
             \A flag \in FlagsOf(entries[e]) \cap DOMAIN rules.sfx :
                \A k \in DOMAIN rules.sfx[flag] :
                   LET rule == rules.sfx[flag][k]
                       base == entries[e][1]
                       candidate == SubSeq(base, 1, Len(base) - Len(rule[1])) \o rule[2]
                   IN (/\ ~CondIsValid(rule[3])
                       /\ ~IsBlocked(rule[2], blocked_suffix_additions)
                       /\ EndsWith(base, rule[1])
                       /\ Len(candidate) = word_length
                       /\ LettersMatch(candidate))
                      => candidate \in expanded

\* "run" with the suffix rule (add "e", condition "["): "rune" is kept
C23_Witness ==
    /\ expandPc = "done" /\ word_length = 4
    /\ HasInvalidCond(rules.sfx)
    /\ entries = <<<<Run, <<"S">>>>>>
    /\ blocked_suffix_additions = {}
    /\ expanded = {<<"r", "u", "n", "e">>}

(***************************************************************************)
(* _collect_dictionary_word_data on its own                                *)
(***************************************************************************)
Ru == <<"r", "u">>
DeAt == <<"d", "e", "-", "a", "t">>
\* the suffix rule that turns "run" into "runs" by replacing its last letter
ReplacingRule == [sfx |-> TableOf(<<<<<<"n">>, <<"n", "s">>, ".">>>>), pfx |-> <<>>]
\* what _load_dictionary_components returns for the folder
CollectDictionaryPool ==
    {[entries |-> <<>>, rules |-> NoRules],
     [entries |-> <<<<Run, <<"S">>>>, <<Runs, <<>>>>>>, rules |-> NoRules],
     [entries |-> <<<<Runs, <<>>>>>>, rules |-> NoRules],
     [entries |-> <<<<Run, <<"S">>>>>>, rules |-> OneSuffixRule],
     [entries |-> <<<<Run, <<"S">>>>>>, rules |-> ReplacingRule],
     [entries |-> <<<<Ru, <<>>>>, <<Run, <<>>>>, <<Dun, <<>>>>>>, rules |-> NoRules],
     [entries |-> <<<<Run, <<"S">>>>, <<Dun, <<>>>>, <<Ru1, <<>>>>>>, rules |-> OneSuffixRule]}
\* the filters directory: global and German disallowed suffixes or none
CollectConfigPool ==
    {Directory(g, {}, d) : g \in Optional({x \in GlobalFiles : x.suffixes # {}}),
                           d \in Optional(DeFiles)}
\* language codes are the lower-cased names of the dictionary folders
CollectLangs == {En, De, DeAt, EnUS}

InitCollect ==
    /\ dictionary \in CollectDictionaryPool
    /\ config \in CollectConfigPool
    /\ profane = {}
    /\ validator_cache = <<>> /\ solution_cache = <<>>
    /\ cache_dir = FALSE /\ solution_dir = FALSE /\ writable = TRUE /\ last = NoLast
    /\ collected = NoData /\ collectPc = "ready"
    /\ ScoreIdle /\ AffixIdle /\ FilterIdle /\ ParseIdle /\ GameIdle

\* _collect_dictionary_word_data(dict_folder, word_length, logger, lang)
CollectDictionaryWordData(lng, n) ==
    LET data == _collect_dictionary_word_data(config, dictionary, n, lng)
    IN /\ collected' = [lang |-> lng, n |-> n, raised |-> data.raised,
                        base_words |-> data.base_words,
                        affixed_words |-> data.affixed_words,
                        catalog |-> data.catalog]
       /\ collectPc' = "done"
       /\ UNCHANGED <<scoreVars, affixVars, filterVars, envVars, programVars, parseVars,
                      gameVars>>

NextCollect == \E lng \in CollectLangs, n \in Lengths : CollectDictionaryWordData(lng, n)
SpecCollect == InitCollect /\ [][NextCollect]_vars

\* the disallowed suffixes configured for the global archetype and for the
\* archetype of the language
DisallowedSuffixes(files, lng) ==
    load_filter_config(files, Global).suffixes
    \cup (IF _language_archetype(lng) = <<>> THEN {}
          ELSE load_filter_config(files, _language_archetype(lng)).suffixes)

\* w is a non-empty word of the catalog followed by a disallowed suffix
StemPlusDisallowed(w, files, lng, catalog) ==
    \E s \in DisallowedSuffixes(files, lng), stem \in catalog :
        stem # <<>> /\ w = stem \o s

\* C24: after _collect_dictionary_word_data neither base_words nor
\* affixed_words contains a word stem + s where s is a disallowed suffix of
\* the global archetype or of the language's archetype and stem is a
\* non-empty word of the full source catalog, plain dictionary entries
\* included.
C24_NoStemPlusDisallowedSuffix ==
    (collectPc = "done" /\ collected.raised = "none") =>
        \A w \in collected.base_words \cup collected.affixed_words :
            ~StemPlusDisallowed(w, config, collected.lang, collected.catalog)

\* the plain entry "runs" beside the entry "run" is dropped under the
\* global suffix "s", and nothing is left
C24_Witness ==
    /\ collectPc = "done" /\ collected.raised = "none" /\ collected.n = 4
    /\ dictionary.entries = <<<<Run, <<"S">>>>, <<Runs, <<>>>>>>
    /\ <<"s">> \in DisallowedSuffixes(config, collected.lang)
    /\ Runs \notin collected.base_words \cup collected.affixed_words

(***************************************************************************)
(* Region subtags and codes without a configuration                        *)
(***************************************************************************)
\* C25: filter_candidates resolves the archetype by dropping the region
\* subtag after the first hyphen, so "de-AT" is filtered with exactly the
\* configuration of "de"; a code whose archetype has no configuration is
\* filtered with an empty one: beyond the global filter only words that
\* are not alphabetic or are profane are removed.
C25_RegionDroppedUnknownEmpty ==
    (filterPc # "ready" /\ enable_filters) =>
        /\ filtered = filter_candidates(config, profane, words, ClaimArchetype(lang), {}, TRUE)
        /\ lang = DeAT => filtered = filter_candidates(config, profane, words, De, {}, TRUE)
        /\ ClaimArchetype(lang) \notin DOMAIN config =>
              Range(filtered) =
                  {w \in Range(words) : /\ Passes(w, ClaimConfig(Global))
                                        /\ Passes(w, EmptyFilterConfig)}

\* "de-AT" with a German configuration that disallows the suffix "n"
C25_Witness ==
    /\ filterPc = "filtered" /\ enable_filters /\ lang = DeAT
    /\ De \in DOMAIN config /\ Global \notin DOMAIN config /\ profane = {}
    /\ words = <<Run, Und>>
    /\ filtered = <<Und>>

(***************************************************************************)
(* The heuristics for inflected forms                                      *)
(***************************************************************************)
\* w[:-k]
DropLast(w, k) == SubSeq(w, 1, Len(w) - k)
\* w.endswith(tuple of suffixes)
EndsWithAny(w, suffixes) == \E x \in suffixes : EndsWith(w, x)

_looks_plural_en(word, catalog) ==
    LET w == Lower(word)
    IN IF Len(w) <= 3 THEN FALSE
       ELSE \/ /\ EndsWith(w, <<"i", "e", "s">>) /\ Len(w) > 3
               /\ DropLast(w, 3) \o <<"y">> \in catalog
            \/ /\ EndsWith(w, <<"v", "e", "s">>) /\ Len(w) > 3
               /\ \/ DropLast(w, 3) \o <<"f">> \in catalog
                  \/ DropLast(w, 3) \o <<"f", "e">> \in catalog
            \/ /\ EndsWithAny(w, {<<"s", "e", "s">>, <<"x", "e", "s">>, <<"z", "e", "s">>,
                                  <<"c", "h", "e", "s">>, <<"s", "h", "e", "s">>})
               /\ DropLast(w, 2) \in catalog
            \/ /\ EndsWith(w, <<"m", "e", "n">>) /\ Len(w) > 3
               /\ DropLast(w, 3) \o <<"m", "a", "n">> \in catalog
            \/ /\ EndsWith(w, <<"e", "s">>) /\ Len(w) > 2
               /\ DropLast(w, 2) \in catalog
            \/ /\ EndsWith(w, <<"s">>) /\ Len(w) > 2
               /\ ~EndsWithAny(w, {<<"s", "s">>, <<"u", "s">>, <<"i", "s">>,
                                   <<"o", "u", "s">>})
               /\ DropLast(w, 1) \in catalog

_looks_past_tense_en(word, catalog) ==
    LET w == Lower(word)
    IN IF Len(w) <= 3 THEN FALSE
       ELSE \/ /\ EndsWith(w, <<"i", "e", "d">>) /\ Len(w) > 3
               /\ DropLast(w, 3) \o <<"y">> \in catalog
            \/ /\ EndsWith(w, <<"e", "d">>) /\ Len(w) > 3
               /\ DropLast(w, 2) \in catalog
            \/ /\ EndsWith(w, <<"t">>) /\ Len(w) > 3
               /\ DropLast(w, 1) \in catalog
               /\ DropLast(w, 1) \o <<"e">> \in catalog

_looks_plural_de(word, catalog) ==
    LET w == Lower(word)
    IN IF Len(w) <= 3 THEN FALSE
       ELSE \/ /\ EndsWith(w, <<"i", "n", "n", "e", "n">>) /\ Len(w) > 5
               /\ DropLast(w, 5) \o <<"i", "n">> \in catalog
            \/ /\ EndsWith(w, <<"e", "r">>) /\ Len(w) > 3
               /\ DropLast(w, 2) \in catalog
            \/ /\ EndsWith(w, <<"e", "n">>) /\ Len(w) > 3
               /\ ~EndsWithAny(w, {<<"c", "h", "e", "n">>, <<"l", "e", "i", "n">>})
               /\ DropLast(w, 2) \in catalog
            \/ /\ EndsWith(w, <<"e">>) /\ Len(w) > 3
               /\ DropLast(w, 1) \in catalog
            \/ /\ EndsWith(w, <<"s">>) /\ Len(w) > 3
               /\ DropLast(w, 1) \in catalog

_looks_past_tense_de(word, catalog) ==
    LET w == Lower(word)
    IN IF Len(w) <= 3 THEN FALSE
       ELSE \/ /\ StartsWith(w, <<"g", "e">>) /\ Len(w) > 4
               /\ \/ /\ EndsWith(w, <<"t">>)
                     /\ SubSeq(w, 3, Len(w) - 1) \o <<"e", "n">> \in catalog
                  \/ /\ EndsWith(w, <<"e", "n">>)
                     /\ SubSeq(w, 3, Len(w)) \in catalog
            \/ \E ending \in {<<"t", "e">>, <<"t", "e", "s", "t">>, <<"t", "e", "t">>,
                               <<"t", "e", "n">>} :
                  /\ EndsWith(w, ending) /\ Len(w) > Len(ending) + 1
                  /\ DropLast(w, Len(ending)) \o <<"e", "n">> \in catalog

_should_exclude_inflected(word, lng, catalog) ==
    IF catalog = {} THEN FALSE
    ELSE IF StartsWith(lng, En)
    THEN _looks_plural_en(word, catalog) \/ _looks_past_tense_en(word, catalog)
    ELSE IF StartsWith(lng, De)
    THEN _looks_plural_de(word, catalog) \/ _looks_past_tense_de(word, catalog)
    ELSE FALSE

(***************************************************************************)
(* A game session: play_gui, the guesses and the restart button            *)
(***************************************************************************)
MaxGuesses == 2

\* read_solutions_file: the stripped non-empty lines, none without a file
read_solutions_file(file) == IF ~file.exists THEN <<>> ELSE StrippedLines(file.lines)

_filter_solutions_by_length(solutions, n) ==
    LET HasLength(w) == Len(w) = n
    IN SelectSeq(solutions, HasLength)

\* the words pick_unused_solution chooses from (random.choice); empty when
\* it returns None
pick_unused_solution(candidates, n, used) ==
    {w \in Range(candidates) : Len(w) = n /\ w \notin used}

\* the words pick_random_solution chooses from; empty when it raises
pick_random_solution(candidates, n) == {w \in Range(candidates) : Len(w) = n}

\* build_validator as play_gui calls it: the outcome, the allowed set of
\* the validator, and the validator cache and its directory afterwards
build_validator(store, dir_exists, can_write, files, dict, solutions, lng, n) ==
    LET dir == MakeDirs(dir_exists, can_write)
        cached_words == load_cache(store, lng, n)
        data == _collect_dictionary_word_data(files, dict, n, lng)
        none == [outcome |-> "none", allowed |-> {}, store |-> store, dir |-> dir]
    IN IF cached_words # {}
       THEN [none EXCEPT !.outcome = "ok",
                         !.allowed = cached_words \cup SolutionsOfLength(solutions, n)]
       ELSE IF data.raised # "none" THEN [none EXCEPT !.outcome = data.raised]
       ELSE IF ~CanOpenForWrite(dir, can_write) THEN [none EXCEPT !.outcome = "OSError"]
       ELSE [none EXCEPT !.outcome = "ok",
                         !.allowed = combined(data) \cup SolutionsOfLength(solutions, n),
                         !.store = WriteFile(store, <<lng, n>>, Sorted(combined(data)))]

\* _load_or_build_filtered_solutions as play_gui calls it: the outcome, the
\* returned list, and the solution cache and the directories afterwards
_load_or_build_filtered_solutions(store, dir_exists, parent_exists, can_write, files, flagged, dict, lng, n, enable) ==
    LET dir == IF UsesSolutionCache(enable) THEN MakeDirs(dir_exists, can_write)
               ELSE dir_exists
        parent == IF UsesSolutionCache(enable) THEN MakeDirs(parent_exists, can_write)
                  ELSE parent_exists
        cached == IF UsesSolutionCache(enable)
                  THEN load_filtered_solution_cache(store, lng, n)
                  ELSE <<>>
        data == _collect_dictionary_word_data(files, dict, n, lng)
        generated_words == Sorted(combined(data))
        after_filters == filter_candidates(files, flagged, generated_words, lng,
                                           data.catalog, enable)
        final == IF after_filters = <<>> THEN generated_words ELSE after_filters
        none == [outcome |-> "none", ret |-> <<>>, store |-> store, dir |-> dir,
                 parent |-> parent]
    IN IF cached # <<>> THEN [none EXCEPT !.outcome = "ok", !.ret = cached]
       ELSE IF data.raised # "none" THEN [none EXCEPT !.outcome = data.raised]
       ELSE IF generated_words = <<>> THEN [none EXCEPT !.outcome = "ValueError"]
       ELSE IF ~enable THEN [none EXCEPT !.outcome = "ok", !.ret = generated_words]
       ELSE IF ~CanOpenForWrite(dir, can_write) THEN [none EXCEPT !.outcome = "OSError"]
       ELSE [none EXCEPT !.outcome = "ok", !.ret = final,
                         !.store = WriteFile(store, <<lng, n>>, Sorted(Range(final)))]

\* the pools play_gui settles on once the validator is built: the lists
\* all_solutions and solutions_by_len, raised naming the exception
SolutionPools(read, found, difficulty, built, n) ==
    LET by_len == _filter_solutions_by_length(read, n)
        use_built == ~found /\ difficulty # "chaos" /\ built # <<>>
        all0 == IF use_built THEN built ELSE read
        by_len0 == IF use_built THEN built ELSE by_len
    IN IF by_len0 # <<>> THEN [raised |-> "none", all |-> all0, by_len |-> by_len0]
       ELSE \* the allowed words of the validator are attached after the pools
            [raised |-> "fallback", all |-> all0, by_len |-> by_len0]

\* the dictionary fallback of play_gui when no solution has the length
DictionaryFallback(allowed, n) ==
    LET allowed_list == IF allowed # {} THEN Sorted(allowed) ELSE <<>>
        dictionary_candidates == IF allowed # {}
                                 THEN _filter_solutions_by_length(allowed_list, n)
                                 ELSE <<>>
    IN IF dictionary_candidates # <<>>
       THEN [raised |-> "none",
             all |-> IF allowed_list # <<>> THEN allowed_list ELSE dictionary_candidates,
             by_len |-> dictionary_candidates]
       ELSE [raised |-> "ValueError", all |-> <<>>, by_len |-> <<>>]

\* the dictionary folder: "run" with its plural, or an entry line with a
\* blank before the flags beside "runs"
GameDictionaryPool ==
    {[entries |-> <<<<Run, <<>>>>, <<Runs, <<>>>>>>, rules |-> NoRules],
     [entries |-> <<<<RunBlank, <<"S">>>>, <<Runs, <<>>>>>>, rules |-> NoRules]}
\* the filters directory: empty, or with a global disallowed suffix
GameConfigPool ==
    {Directory({}, {}, {}),
     Directory({x \in GlobalFiles : x.suffixes # {}}, {}, {})}
\* the solutions file of the language and length: missing, or two words
SolutionFilePool == {NoFile, [exists |-> TRUE, lines |-> <<<<"D", "u", "n">>, Runs>>]}
\* the languages of the sessions
GameLangs == {En, De}
Difficulties == {"medium", "chaos"}
\* what the keys put into the input cells: lower-case letters
GuessPool == {Run, Runs, Dun}

InitGame ==
    /\ dictionary \in GameDictionaryPool
    /\ config \in GameConfigPool
    /\ profane = {}
    /\ validator_cache = <<>> /\ solution_cache = <<>>
    /\ cache_dir = FALSE /\ solution_dir = FALSE /\ writable = TRUE /\ last = NoLast
    /\ NoGame /\ gamePc = "start"
    /\ ScoreIdle /\ AffixIdle /\ FilterIdle /\ ParseIdle /\ CollectIdle

\* play_gui up to the selection of the first secret; an exception ends the
\* process (main reports it)
PlayGui(lng, n, difficulty, use_solution_filters, file) ==
    /\ gamePc = "start"
    /\ \E read \in {read_solutions_file(file)} :
       \E v \in {build_validator(validator_cache, cache_dir, writable, config, dictionary,
                                 read, lng, n)} :
       \E built \in {IF v.outcome = "ok" /\ ~file.exists /\ difficulty # "chaos"
                      THEN _load_or_build_filtered_solutions(solution_cache, solution_dir,
                               v.dir, writable, config, profane, dictionary, lng, n,
                               use_solution_filters)
                      ELSE [outcome |-> "ok", ret |-> <<>>, store |-> solution_cache,
                            dir |-> solution_dir, parent |-> v.dir]} :
       \E pools0 \in {SolutionPools(read, file.exists, difficulty, built.ret, n)} :
       \E pools \in {IF pools0.raised = "fallback" THEN DictionaryFallback(v.allowed, n)
                      ELSE pools0} :
       \E unused \in {pick_unused_solution(pools.all, n, USED_SOLUTIONS)} :
       \E chosen \in {IF unused # {} THEN unused ELSE pick_random_solution(pools.all, n)} :
          /\ validator_cache' = v.store
          /\ cache_dir' = built.parent
          /\ solution_cache' = built.store
          /\ solution_dir' = built.dir
          /\ session' = [lang |-> lng, n |-> n, difficulty |-> difficulty,
                         use_solution_filters |-> use_solution_filters]
          /\ IF v.outcome # "ok" \/ built.outcome # "ok" \/ pools.raised # "none"
                \/ chosen = {}
             THEN /\ gamePc' = "failed"
                  /\ UNCHANGED <<secret, all_solutions, solutions_by_len, allowed_words>>
             ELSE /\ gamePc' = "playing"
                  /\ secret' \in chosen
                  /\ all_solutions' = pools.all
                  /\ solutions_by_len' = pools.by_len
                  /\ allowed_words' = v.allowed
    /\ UNCHANGED <<USED_SOLUTIONS, game_over, restart_button, guess_history,
                   dictionary, writable, last,
                   scoreVars, affixVars, filterVars, envVars, parseVars, collectVars>>

\* submit_guess_from_cells with a guess it accepts (a guess of another
\* length or not in the dictionary only sets the status line)
SubmitGuess(g) ==
    /\ gamePc = "playing" /\ ~game_over
    /\ Len(guess_history) < MaxGuesses
    /\ Len(g) = session.n
    /\ is_valid(allowed_words, session.lang, g)
    /\ guess_history' = Append(guess_history, g)
    /\ IF _normalize_word(g) = _normalize_word(secret)
       THEN /\ game_over' = TRUE
            /\ USED_SOLUTIONS' = USED_SOLUTIONS \cup {secret}
            /\ LET remaining == {w \in Range(solutions_by_len) : w \notin USED_SOLUTIONS'}
               IN restart_button' = (remaining # {} \/ restart_button)
       ELSE UNCHANGED <<game_over, USED_SOLUTIONS, restart_button>>
    /\ UNCHANGED <<secret, all_solutions, solutions_by_len, allowed_words, session, gamePc,
                   scoreVars, affixVars, filterVars, envVars, programVars, parseVars,
                   collectVars>>

\* do_restart, the command of the restart button
DoRestart ==
    LET next_secret == pick_unused_solution(all_solutions, session.n, USED_SOLUTIONS)
    IN /\ gamePc = "playing" /\ restart_button
       /\ restart_button' = FALSE
       /\ IF next_secret = {}
          THEN UNCHANGED <<secret, guess_history, game_over>>
          ELSE /\ secret' \in next_secret
               /\ guess_history' = <<>>
               /\ game_over' = FALSE
       /\ UNCHANGED <<USED_SOLUTIONS, all_solutions, solutions_by_len, allowed_words,
                      session, gamePc,
                      scoreVars, affixVars, filterVars, envVars, programVars, parseVars,
                      collectVars>>

\* the window is closed, or main has reported the exception, and the
\* program is started again: a new process with the files the old one left
NewProcess ==
    /\ gamePc \in {"playing", "failed"}
    /\ USED_SOLUTIONS' = {} /\ secret' = <<>> /\ all_solutions' = <<>>
    /\ solutions_by_len' = <<>> /\ allowed_words' = {} /\ game_over' = FALSE
    /\ restart_button' = FALSE /\ guess_history' = <<>> /\ session' = NoSession
    /\ gamePc' = "start"
    /\ UNCHANGED <<scoreVars, affixVars, filterVars, envVars, programVars, parseVars,
                   collectVars>>

NextGame ==
    \/ \E lng \in GameLangs, n \in Lengths, difficulty \in Difficulties,
          use_solution_filters \in BOOLEAN, file \in SolutionFilePool :
          PlayGui(lng, n, difficulty, use_solution_filters, file)
    \/ \E g \in GuessPool : SubmitGuess(g)
    \/ DoRestart
    \/ NewProcess
SpecGame == InitGame /\ [][NextGame]_vars

\* C26: in medium difficulty the solution pool excludes likely-inflected
\* forms: no secret selected for English or German is a word that
\* _should_exclude_inflected (plural or past tense by the heuristics)
\* reports against the catalog of the dictionary.
C26_MediumExcludesInflected ==
    (gamePc = "playing" /\ session.difficulty = "medium") =>
        ~_should_exclude_inflected(secret, session.lang,
                                   {dictionary.entries[e][1] : e \in DOMAIN dictionary.entries})

\* within a process the set of used secrets only grows
UsedOnlyGrows == gamePc' # "start" => USED_SOLUTIONS \subseteq USED_SOLUTIONS'

\* a word enters the set only as the current secret, on the guess that
\* equals it
EntersWhenGuessed ==
    \A w \in USED_SOLUTIONS' \ USED_SOLUTIONS :
        /\ w = secret
        /\ guess_history' # <<>>
        /\ _normalize_word(guess_history'[Len(guess_history')]) = _normalize_word(secret)

\* the secret a restart chooses is not in the set
RestartSecretUnused == (DoRestart /\ ~game_over') => secret' \notin USED_SOLUTIONS'

\* the button is there only while a solution of the target length is unused
OfferedOnlyIfUnused ==
    restart_button =>
        \E w \in Range(all_solutions) : Len(w) = session.n /\ w \notin USED_SOLUTIONS

\* C30: the used-secret set only grows; a word enters it only when it is
\* the current secret and is guessed correctly; the secret chosen by a
\* restart is never a member; restart is offered after a win only if some
\* solution of the target length is still unused.
C30_UsedSecrets ==
    /\ [][UsedOnlyGrows /\ EntersWhenGuessed /\ RestartSecretUnused]_vars
    /\ []OfferedOnlyIfUnused

\* the part of C30 about the set itself and the secret of a restart
UsedSecretsGrowByWins == [][UsedOnlyGrows /\ EntersWhenGuessed /\ RestartSecretUnused]_vars

\* a restart took place after a win and chose the other solution
RestartedAfterWin ==
    /\ gamePc = "playing" /\ ~game_over /\ USED_SOLUTIONS # {}
    /\ secret \notin USED_SOLUTIONS /\ guess_history = <<>>

(***************************************************************************)
(* The solution cache when the filters are disabled                        *)
(***************************************************************************)
\* a call of _load_or_build_filtered_solutions with enable_filters=False
LoadOrBuildUnfilteredStep ==
    /\ last'.op = "load_or_build" /\ ~last'.enable
    /\ LoadOrBuildFilteredSolutions(last'.lang, last'.n, FALSE)

\* C27: with filters disabled _load_or_build_filtered_solutions neither
\* reads nor writes the filtered-solution cache: it returns the freshly
\* generated sorted list even when a cached list exists for the key (it
\* raises ValueError only when nothing was generated), and the persisted
\* entries and directories are left as they were.
C27_DisabledBypassesCache ==
    [][LoadOrBuildUnfilteredStep =>
          /\ solution_cache' = solution_cache /\ validator_cache' = validator_cache
          /\ solution_dir' = solution_dir /\ cache_dir' = cache_dir
          /\ ~last'.hit
          /\ last'.outcome \in {"ok", "ValueError"}
          /\ last'.outcome = "ValueError" <=> GeneratedWords(last'.lang, last'.n) = <<>>
          /\ last'.outcome = "ok" => last'.ret = GeneratedWords(last'.lang, last'.n)]_vars

\* a call without filters returned the generated list while the cache file
\* of its key holds another list
C27_Witness ==
    /\ last.op = "load_or_build" /\ ~last.enable /\ last.outcome = "ok"
    /\ HasFile(solution_cache, <<last.lang, last.n>>)
    /\ load_filtered_solution_cache(solution_cache, last.lang, last.n) # <<>>
    /\ load_filtered_solution_cache(solution_cache, last.lang, last.n) # last.ret
    /\ last.ret = GeneratedWords(last.lang, last.n)

(***************************************************************************)
(* Calls served from the caches that earlier calls filled                  *)
(***************************************************************************)
\* the program on a dictionary folder that does not change, with a file
\* system that takes writes and both caches empty at first
InitCached ==
    /\ dictionary \in GameDictionaryPool
    /\ config \in GameConfigPool
    /\ profane = {}
    /\ validator_cache = <<>> /\ solution_cache = <<>>
    /\ cache_dir = FALSE /\ solution_dir = FALSE /\ writable = TRUE /\ last = NoLast
    /\ ScoreIdle /\ AffixIdle /\ FilterIdle /\ ParseIdle /\ CollectIdle /\ GameIdle

NextCached ==
    \/ \E lng \in Langs, n \in Lengths, solutions \in SolutionsPool :
          BuildValidator(lng, n, solutions)
    \/ \E lng \in Langs, n \in Lengths, enable \in BOOLEAN :
          LoadOrBuildFilteredSolutions(lng, n, enable)
SpecCached == InitCached /\ [][NextCached]_vars

\* the call before this one built the filtered solutions of a key and
\* returned them, and this call asks for the same key with filters enabled
SolutionsAskedAgain ==
    /\ last.op = "load_or_build" /\ last.enable /\ ~last.hit /\ last.outcome = "ok"
    /\ LoadOrBuildStep
    /\ last'.lang = last.lang /\ last'.n = last.n

\* the call before this one built the validator of a key, and this call
\* asks for the same key with the same solutions
ValidatorAskedAgain ==
    /\ last.op = "build_validator" /\ ~last.hit /\ last.outcome = "ok"
    /\ BuildValidatorStep
    /\ last'.lang = last.lang /\ last'.n = last.n /\ last'.solutions = last.solutions

\* C28: the caches are transparent: with filters enabled and an unchanged
\* dictionary, when a call of _load_or_build_filtered_solutions builds and
\* returns L, a later call for the same key with no clear in between
\* returns exactly L; and the allowed set of a build_validator call served
\* from the cache equals the allowed set of the call that built the cache.
C28_CacheTransparent ==
    [][/\ SolutionsAskedAgain => (last'.outcome = "ok" /\ last'.ret = last.ret)
       /\ ValidatorAskedAgain => (last'.outcome = "ok" /\ last'.allowed = last.allowed)]_vars

\* the same for the lists and sets whose words have no white space at
\* their ends and that are not empty
StripsToItself(ws) == ws # {} /\ \A w \in ws : Strip(w) = w /\ w # <<>>
TransparentForStrippedWords ==
    [][/\ (SolutionsAskedAgain /\ StripsToItself(Range(last.ret)))
          => (last'.outcome = "ok" /\ last'.hit /\ last'.ret = last.ret)
       /\ (ValidatorAskedAgain /\ StripsToItself(last.allowed \ SolutionsOfLength(last.solutions, last.n)))
          => (last'.outcome = "ok" /\ last'.hit /\ last'.allowed = last.allowed)]_vars

(***************************************************************************)
(* What a clear leaves behind                                              *)
(***************************************************************************)
\* a call of clear_cache or of clear_filtered_solution_cache
ClearStep ==
    \/ last'.op = "clear_cache" /\ ClearCache(last'.scope)
    \/ last'.op = "clear_filtered_solution_cache" /\ ClearFilteredSolutionCache(last'.scope)

\* C29: clearing is purely destructive: clear_cache and
\* clear_filtered_solution_cache never create a file or a directory, and a
\* clear when the cache directories do not exist leaves the file system
\* unchanged.
C29_ClearOnlyRemoves ==
    [][ClearStep =>
          /\ cache_dir' => cache_dir
          /\ solution_dir' => solution_dir
          /\ DOMAIN validator_cache' \subseteq DOMAIN validator_cache
          /\ DOMAIN solution_cache' \subseteq DOMAIN solution_cache
          /\ (~cache_dir /\ ~solution_dir) =>
                UNCHANGED <<cache_dir, solution_dir, validator_cache, solution_cache>>]_vars

\* no clear creates a file, and clear_cache creates no directory either
ClearCreatesNoFile ==
    [][ClearStep =>
          /\ DOMAIN validator_cache' \subseteq DOMAIN validator_cache
          /\ DOMAIN solution_cache' \subseteq DOMAIN solution_cache
          /\ last'.op = "clear_cache" =>
                ((cache_dir' => cache_dir) /\ UNCHANGED solution_dir)]_vars

====
